---- MODULE Spec2Model ----
(***************************************************************************)
(* gnss2tec-logger: run mode (ingestion loop, conversion worker, converter *)
(* lock), the per-hour conversion workflow and output validation.          *)
(***************************************************************************)
EXTENDS Integers, Sequences, FiniteSets, TLC

\* ------------------------------------------------------------------ bounds
\* Clock ticks per UTC hour (a segment name is the tick it was opened at).
TicksPerHour == 2
\* The clock stops advancing at this tick.
MaxNow == 4

\* ------------------------------------------------------- program constants
\* run.rs:256  total_hours = max_days_back * 24
HoursPerDay == 24

NoHour == -1000
NoFile == -1000

ConvertLock == "convert.lock"
LoggerLock == "ubx_log.lock"
LockPaths == {ConvertLock, LoggerLock}

VARIABLES
    now,          \* Utc::now(), in ticks
    running,      \* the shared run flag (Arc<AtomicBool>)
    args,         \* RunArgs: convert_on_start, shift_hours, max_days_back, keep_ubx
    ipc,          \* position of run_mode (main thread)
    runResult,    \* what run_mode returned
    activeKey,    \* active_hour_key / active_hour_start
    writer,       \* the segment the loop writes to
    openWriters,  \* segment files currently held open by run_mode
    segs,         \* segment files present in data_dir
    queue,        \* jobs in the mpsc channel
    txAlive,      \* convert_tx not yet dropped
    rxAlive,      \* the worker's Receiver not yet dropped
    wpc,          \* position of the conversion worker thread
    wphase,       \* which receive loop the worker is in: "recv" or "drain"
    wjob,         \* the hour convert_one_hour is working on
    woutcome,     \* outcome of the last finished convert_one_hour
    cpc,          \* position of a separately started `convert` command
    cliLock,      \* its --lock-file
    locks,        \* lock path -> holders of an exclusive OS lock on it
    sentOk,       \* hours whose send returned Ok, in order
    handed        \* hours handed to convert_one_hour, in order

VARIABLES
    vOutputs,     \* validate_hour_outputs: the collected output paths (file names)
    vSkipNav,     \* its skip_nav argument
    vHour,        \* the hour its label names
    vResult       \* what it returned

VARIABLES
    cargs,        \* ConvertArgs: skip_nav, keep_ubx, nav_output_format
    ppc,          \* position of convert_hour_utc / process_hour
    pHour,        \* the hour dt it was called for
    ubx_files,    \* the segment files listed for that hour
    workspaces,   \* workspace directories present under data_dir/.convert-work
    work_dir,     \* the workspace of the current attempt (0: none created)
    wsFiles,      \* names of the files in work_dir
    outputs,      \* the collected output products, in order
    stored,       \* the paths move_into_dir returned in this attempt
    archive,      \* archive/<year>/<doy>: file name -> the file stored there
    attempt,      \* conversion attempts started so far
    pResult,      \* what the last attempt returned, and from which step
    warned        \* the last attempt printed the cleanup warning

VARIABLES
    dev,                 \* bytes the receiver has yet to deliver to port.read
    total_bytes,         \* run_mode: total_bytes
    stats_window_bytes,  \* run_mode: stats_window_bytes
    written,             \* segment file -> the bytes handed to its writer
    monitor,             \* the NmeaMonitor
    emitted,             \* the [NMEA:...] lines printed so far
    lastRead             \* what port.read returned, while the match on it lasts

VARIABLES
    stream,       \* all bytes passed to NmeaMonitor::ingest so far
    captured,     \* all sentences its collector has pushed out so far
    ingestCalls,  \* number of ingest calls
    emitTicks     \* number of maybe_emit_logs calls that found the interval elapsed

VARIABLES
    config,       \* the lines of the UBX config file (contents.lines())
    ubxResult     \* what parse_ubx_config returned

VARIABLES
    rArgs,            \* ConvertArgs of a `convert` command: shift_hours, max_days_back, keep_ubx
    rpc,              \* position of run_convert / convert_recent_hours
    rAnchor,          \* convert_recent_hours: anchor
    rOffset,          \* convert_recent_hours: offset
    processed_hours,  \* convert_recent_hours: processed_hours
    rResult,          \* what run_convert returned
    rTried,           \* the hours convert_hour_utc was called for, in order
    rArchived         \* the hours whose products process_hour has archived

valVars == <<vOutputs, vSkipNav, vHour, vResult>>

dataVars == <<dev, total_bytes, stats_window_bytes, written, monitor, emitted,
              lastRead>>

nmeaVars == <<stream, captured, ingestCalls, emitTicks>>

ubxVars == <<config, ubxResult>>

recentVars == <<rArgs, rpc, rAnchor, rOffset, processed_hours, rResult, rTried,
                rArchived>>

convVars == <<cargs, ppc, pHour, ubx_files, workspaces, work_dir, wsFiles,
              outputs, stored, archive, attempt, pResult, warned>>

\* The run-mode state but for the contents of data_dir.
runButSegs == <<now, running, args, ipc, runResult, activeKey, writer,
                openWriters, queue, txAlive, rxAlive, wpc, wphase, wjob,
                woutcome, cpc, cliLock, locks, sentOk, handed>>

runVars == <<now, running, args, ipc, runResult, activeKey, writer, openWriters,
             segs, queue, txAlive, rxAlive, wpc, wphase, wjob, woutcome, cpc,
             cliLock, locks, sentOk, handed>>

\* What the run-mode actions leave alone.
nonRunVars == <<valVars, convVars, dataVars, nmeaVars, ubxVars,
    recentVars>>

\* What the conversion workflow leaves alone, but for data_dir.
nonConvVars == <<runButSegs, valVars, dataVars, nmeaVars, ubxVars,
    recentVars>>

vars == <<runVars, valVars, convVars, dataVars, nmeaVars, ubxVars,
    recentVars>>

\* ------------------------------------------------------------- helpers
\* run.rs floor_to_hour + format("%Y%m%d_%H"): the hour bucket of a tick.
floor_to_hour(t) == t \div TicksPerHour

\* lock.rs:31 file.try_lock_exclusive(): succeeds iff nobody holds the lock.
try_lock_shared(holders) == TRUE
try_lock_exclusive(holders) == holders = {}

\* LockGuard::acquire: io_ok is whether create_dir_all and open succeeded.
acquire_always_ok(l, path, io_ok) == TRUE
acquire_ok(l, path, io_ok) == io_ok /\ try_lock_exclusive(l[path])
acquire(l, path, p, io_ok) ==
    IF acquire_ok(l, path, io_ok) THEN [l EXCEPT ![path] = @ \cup {p}] ELSE l

\* LockGuard::drop: unlock.
keep_lock(l, path, p) == l
drop_lock(l, path, p) == [l EXCEPT ![path] = @ \ {p}]

\* convert.rs list_hour_ubx_files: the segment files of one hour.
list_hour_ubx_files(files, hour) == {f \in files : floor_to_hour(f) = hour}

\* run.rs enqueue_startup_catchup_hours: the hours it walks, newest first.
CatchupHoursFromNow(a, t) ==
    LET total == a.max_days_back * HoursPerDay
    IN [i \in 1..total |-> floor_to_hour(t) - (i - 1)]
CatchupHours(a, t) ==
    LET total == a.max_days_back * HoursPerDay
        anchor == floor_to_hour(t - a.shift_hours * TicksPerHour)
    IN [i \in 1..total |-> anchor - (i - 1)]

\* ----------------------------------------------------------- characters
\* Texts are sequences of one-character strings.
UpperCase == <<"A","B","C","D","E","F","G","H","I","J","K","L","M",
               "N","O","P","Q","R","S","T","U","V","W","X","Y","Z">>
LowerCase == <<"a","b","c","d","e","f","g","h","i","j","k","l","m",
               "n","o","p","q","r","s","t","u","v","w","x","y","z">>
Digits == <<"0","1","2","3","4","5","6","7","8","9">>

\* ------------------------------------------------------- NMEA monitor
\* Bytes are integers 0..255; a sentence is a sequence of bytes.
\* nmea.rs:6
MAX_SENTENCE_LEN == 160
\* nmea.rs:125, 132: b'$'
Dollar == 36
\* nmea.rs:139: b'\n'
LF == 10
\* nmea.rs:366: b'\r'
CR == 13
\* nmea.rs:372: '*'
Star == 42
\* nmea.rs:375: ','
Comma == 44

\* The byte of an ASCII character of the sentences used here.
byte_of(c) ==
    IF \E k \in 1..10 : Digits[k] = c
    THEN 47 + CHOOSE k \in 1..10 : Digits[k] = c
    ELSE IF \E k \in 1..26 : UpperCase[k] = c
    THEN 64 + CHOOSE k \in 1..26 : UpperCase[k] = c
    ELSE IF c = "$" THEN Dollar
    ELSE IF c = "*" THEN Star
    ELSE IF c = "," THEN Comma
    ELSE 46

\* b"...": the bytes of a text.
Bytes(text) == [i \in 1..Len(text) |-> byte_of(text[i])]

\* nmea.rs:5
WATCHED_MESSAGE_IDS ==
    <<Bytes(<<"G","S","A">>), Bytes(<<"G","S","V">>), Bytes(<<"G","N","S">>),
      Bytes(<<"R","M","C">>), Bytes(<<"G","B","S">>), Bytes(<<"G","S","T">>)>>

\* nmea.rs 365-367
allow_any_byte(byte) == TRUE
is_allowed_nmea_byte(byte) == byte = CR \/ (byte >= 32 /\ byte <= 126)

\* std::str::from_utf8 on a buffer of single bytes: Ok iff all are ASCII
\* (a byte >= 0x80 never enters the buffer, so no multi-byte sequence can).
from_utf8_ok(buf) == \A i \in 1..Len(buf) : buf[i] < 128

\* str::trim_end_matches('\r')
RECURSIVE trim_end_matches(_, _)
trim_end_matches(raw, ch) ==
    IF raw # <<>> /\ raw[Len(raw)] = ch
    THEN trim_end_matches(SubSeq(raw, 1, Len(raw) - 1), ch)
    ELSE raw

\* nmea.rs 115-120: NmeaSentenceCollector::new
collector_new == [capturing |-> FALSE, buf |-> <<>>]

\* nmea.rs 142: raw.trim_end_matches('\r').to_string()
raw_sentence(buf) == buf
close_sentence(buf) == trim_end_matches(buf, CR)

\* nmea.rs 132-137: a '$' while capturing.
keep_on_dollar(buf, byte) == Append(buf, byte)
restart_on_dollar(buf, byte) == <<byte>>

\* nmea.rs 123-164: the body of the loop of push_bytes for one byte; s is the
\* collector with the sentences pushed to out so far.
push_byte(s, byte) ==
    IF ~s.capturing
    THEN IF byte = Dollar
         THEN [s EXCEPT !.capturing = TRUE, !.buf = <<byte>>]
         ELSE s
    ELSE IF byte = Dollar
    THEN [s EXCEPT !.buf = restart_on_dollar(s.buf, byte)]
    ELSE IF byte = LF
    THEN LET sentence == close_sentence(s.buf)
         IN [capturing |-> FALSE, buf |-> <<>>,
             out |-> IF from_utf8_ok(s.buf) /\ sentence # <<>>
                        /\ sentence[1] = Dollar
                     THEN Append(s.out, sentence) ELSE s.out]
    ELSE IF ~is_allowed_nmea_byte(byte)
    THEN [s EXCEPT !.capturing = FALSE, !.buf = <<>>]
    ELSE IF Len(s.buf) >= MAX_SENTENCE_LEN
    THEN [s EXCEPT !.capturing = FALSE, !.buf = <<>>]
    ELSE [s EXCEPT !.buf = Append(s.buf, byte)]

\* nmea.rs 122: push_bytes works on &mut self, the collector as the previous
\* call left it.
start_afresh(collector) == collector_new
self_at_call(collector) == collector

RECURSIVE push_loop(_, _)
push_loop(s, bytes) ==
    IF bytes = <<>> THEN s ELSE push_loop(push_byte(s, Head(bytes)), Tail(bytes))

\* nmea.rs 122-166: push_bytes(&mut self, bytes, out): the collector after
\* the call and the sentences appended to out.
push_bytes(collector, bytes) ==
    LET s == push_loop([capturing |-> self_at_call(collector).capturing,
                        buf |-> self_at_call(collector).buf, out |-> <<>>],
                       bytes)
    IN [collector |-> [capturing |-> s.capturing, buf |-> s.buf],
        out |-> s.out]

\* The first position of byte b in text, Len + 1 if absent (str::split(b).next()).
first_index(text, b) ==
    LET hits == {i \in 1..Len(text) : text[i] = b}
    IN IF hits = {} THEN Len(text) + 1
       ELSE CHOOSE i \in hits : \A j \in hits : i <= j

NoId == <<>>

\* nmea.rs 369-381: the last three bytes of the talker+id field, or None.
parse_message_id(sentence) ==
    IF sentence = <<>> \/ sentence[1] # Dollar THEN NoId
    ELSE LET stripped == Tail(sentence)
             core == SubSeq(stripped, 1, first_index(stripped, Star) - 1)
             talker_and_id == SubSeq(core, 1, first_index(core, Comma) - 1)
         IN IF Len(talker_and_id) < 3 THEN NoId
            ELSE SubSeq(talker_and_id, Len(talker_and_id) - 2,
                        Len(talker_and_id))

\* nmea.rs 383-385
watch_everything(message_id) == TRUE
is_watched_message(message_id) ==
    \E k \in 1..Len(WATCHED_MESSAGE_IDS) : WATCHED_MESSAGE_IDS[k] = message_id

\* nmea.rs 19-34: NmeaMonitor::new; interval 0 stands for None.
monitor_new(interval_secs, format) ==
    [collector |-> collector_new,
     latest |-> [id \in {} |-> <<>>],
     updated_since_emit |-> [id \in {} |-> FALSE],
     interval |-> interval_secs,
     format |-> format]

\* BTreeMap::insert
insert(map, key, value) ==
    [k \in DOMAIN map \cup {key} |-> IF k = key THEN value ELSE map[k]]

\* nmea.rs 45-55: the loop of ingest over the collected sentences.
RECURSIVE ingest_sentences(_, _)
ingest_sentences(m, sentences) ==
    IF sentences = <<>> THEN m
    ELSE LET sentence == Head(sentences)
             message_id == parse_message_id(sentence)
         IN IF message_id = NoId \/ ~is_watched_message(message_id)
            THEN ingest_sentences(m, Tail(sentences))
            ELSE ingest_sentences(
                    [m EXCEPT !.latest = insert(@, message_id, sentence),
                              !.updated_since_emit = insert(@, message_id, TRUE)],
                    Tail(sentences))

\* nmea.rs 38-40, 60-62: self.interval is None.
interval_never_none(interval) == FALSE
interval_is_none(interval) == interval = 0

\* nmea.rs 37-56: NmeaMonitor::ingest
ingest(m, bytes) ==
    IF interval_is_none(m.interval) THEN m
    ELSE LET r == push_bytes(m.collector, bytes)
         IN ingest_sentences([m EXCEPT !.collector = r.collector], r.out)

\* nmea.rs 88-104: the lines emit_sentence_logs prints for one sentence.
emit_sentence_logs(format, message_id, sentence) ==
    LET raw == [tag |-> "RAW", id |-> message_id, sentence |-> sentence]
        plain == [tag |-> "PLAIN", id |-> message_id, sentence |-> sentence]
    IN IF format = "Raw" THEN <<raw>>
       ELSE IF format = "Plain" THEN <<plain>>
       ELSE <<raw, plain>>

\* nmea.rs 81-82: updated_since_emit.insert(message_id, false).
leave_dirty(flags, message_id) == flags
mark_emitted(flags, message_id) == insert(flags, message_id, FALSE)

\* nmea.rs 67-83: the loop of maybe_emit_logs over the watch-list from k on;
\* r is the monitor and the lines printed so far.
RECURSIVE emit_loop(_, _)
emit_loop(r, k) ==
    IF k > Len(WATCHED_MESSAGE_IDS) THEN r
    ELSE LET message_id == WATCHED_MESSAGE_IDS[k]
             m == r.monitor
         IN IF message_id \notin DOMAIN m.latest
            THEN emit_loop(r, k + 1)
            ELSE IF ~(message_id \in DOMAIN m.updated_since_emit
                      /\ m.updated_since_emit[message_id])
            THEN emit_loop(r, k + 1)
            ELSE emit_loop(
                   [monitor |-> [m EXCEPT !.updated_since_emit =
                                              mark_emitted(@, message_id)],
                    lines |-> r.lines \o emit_sentence_logs(m.format, message_id,
                                                           m.latest[message_id])],
                   k + 1)

\* nmea.rs 59-86: NmeaMonitor::maybe_emit_logs; elapsed_ok is whether
\* last_emit.elapsed() >= interval. The monitor after the call and the lines.
maybe_emit_logs(m, elapsed_ok) ==
    IF interval_is_none(m.interval) THEN [monitor |-> m, lines |-> <<>>]
    ELSE IF ~elapsed_ok THEN [monitor |-> m, lines |-> <<>>]
    ELSE emit_loop([monitor |-> m, lines |-> <<>>], 1)

\* Sentences and line ends a receiver sends.
RmcSentence == Bytes(<<"$","G","N","R","M","C",",","1","*","4","A">>)
GsaSentence == Bytes(<<"$","G","P","G","S","A",",","A","*","3","B">>)
RmcLater == RmcSentence \o Bytes(<<",","2">>)
GllSentence == Bytes(<<"$","G","P","G","L","L",",","3">>)
CRLF == <<CR, LF>>

\* ------------------------------------------------------------ run mode
\* RunArgs with the defaults of args.rs (--shift-hours 1, convert_on_start) and
\* the given --max-days-back; --keep-ubx either way.
ArgSets(days) ==
    [convert_on_start : {TRUE}, shift_hours : {1},
     max_days_back : {days}, keep_ubx : BOOLEAN]

\* Largest number of bytes one port.read returns.
MaxRead == 5

\* run.rs 80-89: the counters and the monitor before the loop; the receiver
\* will deliver one of the given streams, the monitor has one of the given
\* --nmea-log-interval-secs.
DataInit(streams, intervals) ==
    /\ dev \in streams
    /\ total_bytes = 0
    /\ stats_window_bytes = 0
    /\ written = [f \in {} |-> <<>>]
    /\ monitor \in {monitor_new(i, "Raw") : i \in intervals}
    /\ emitted = <<>>
    /\ lastRead = "none"

\* run_convert has not returned.
NotReturned == [ok |-> FALSE, at |-> NoHour, why |-> "running"]

\* No `convert` command walking a window.
RecentParked ==
    /\ rArgs = [shift_hours |-> 1, max_days_back |-> 0, keep_ubx |-> FALSE]
    /\ rpc = "none"
    /\ rAnchor = NoHour
    /\ rOffset = 0
    /\ processed_hours = 0
    /\ rResult = NotReturned
    /\ rTried = <<>>
    /\ rArchived = {}

\* A receiver that delivers nothing.
DataQuiet == DataInit({<<>>}, {1})

\* No NmeaMonitor call recorded.
NmeaParked ==
    /\ stream = <<>>
    /\ captured = <<>>
    /\ ingestCalls = 0
    /\ emitTicks = 0

\* parse_ubx_config not called.
NotParsed == [ok |-> FALSE, packets |-> <<>>, line |-> 0, called |-> FALSE]

\* No UBX config file read.
UbxParked ==
    /\ config = <<>>
    /\ ubxResult = NotParsed

\* BufWriter::write_all on the writer of `file`.
write_all_twice(files, file, bytes) ==
    [f \in DOMAIN files \cup {file} |->
        (IF f \in DOMAIN files THEN files[f] ELSE <<>>)
        \o (IF f = file THEN bytes \o bytes ELSE <<>>)]
write_all(files, file, bytes) ==
    [f \in DOMAIN files \cup {file} |->
        (IF f \in DOMAIN files THEN files[f] ELSE <<>>)
        \o (IF f = file THEN bytes ELSE <<>>)]

\* run_mode starts with some RunArgs of the given set, at tick `start`.
RunInitArgs(argset, start) ==
    /\ now = start
    /\ running = TRUE
    /\ args \in argset
    /\ ipc = "start"
    /\ runResult = "none"
    /\ activeKey = NoHour
    /\ writer = NoFile
    /\ openWriters = {}
    /\ segs = {-1}
    /\ queue = <<>>
    /\ txAlive = FALSE
    /\ rxAlive = FALSE
    /\ wpc = "unspawned"
    /\ wphase = "recv"
    /\ wjob = NoHour
    /\ woutcome = "none"
    /\ cpc = "idle"
    /\ cliLock = ConvertLock
    /\ locks = [p \in LockPaths |-> {}]
    /\ sentOk = <<>>
    /\ handed = <<>>

RunInit(days) == RunInitArgs(ArgSets(days), 0)

\* run_mode returns Err(res): main returns it and the process ends, which ends
\* the worker thread and releases its OS lock.
Fail(res) ==
    /\ ipc' = "failed"
    /\ runResult' = res
    /\ txAlive' = FALSE
    /\ rxAlive' = FALSE
    /\ openWriters' = {}
    /\ wpc' = IF wpc \in {"unspawned", "exited"} THEN wpc ELSE "killed"
    /\ locks' = drop_lock(locks, ConvertLock, "worker")
    /\ UNCHANGED <<now, running, args, activeKey, writer, segs, queue, wphase,
                   wjob, woutcome, cpc, cliLock, sentOk, handed>>

\* mpsc::channel is unbounded: Sender::send never waits for the receiver.
rendezvous_send_ready(workerAt, q) == workerAt = "recv" /\ q = <<>>
send_ready(workerAt, q) == TRUE

\* Sender::send: Ok iff the Receiver has not been dropped.
send_ok(alive) == alive
send_front(q, alive, hour) == IF send_ok(alive) THEN <<hour>> \o q ELSE q
send(q, alive, hour) == IF send_ok(alive) THEN Append(q, hour) ELSE q

\* run.rs 21-65: directories, parse_ubx_config, serial port, send_ubx_packets.
RStartup ==
    /\ ipc = "start"
    /\ \E ok \in BOOLEAN :
        IF ok
        THEN /\ ipc' = "spawn"
             /\ UNCHANGED <<now, running, args, runResult, activeKey, writer,
                            openWriters, segs, queue, txAlive, rxAlive, wpc,
                            wphase, wjob, woutcome, cpc, cliLock, locks, sentOk,
                            handed>>
        ELSE Fail("startup_error")
    /\ UNCHANGED nonRunVars

\* run.rs 68-69, 193-200: spawn_conversion_worker.
RSpawn ==
    /\ ipc = "spawn"
    /\ ipc' = "catchup"
    /\ txAlive' = TRUE
    /\ rxAlive' = TRUE
    /\ wpc' = "recv"
    /\ UNCHANGED <<now, running, args, runResult, activeKey, writer, openWriters,
                   segs, queue, wphase, wjob, woutcome, cpc, cliLock, locks,
                   sentOk, handed>>
    /\ UNCHANGED nonRunVars

\* run.rs 72-77, 255-271: enqueue_startup_catchup_hours (stops at a failed send).
RCatchup ==
    /\ ipc = "catchup"
    /\ ipc' = "open"
    /\ LET hours == IF args.convert_on_start /\ send_ok(rxAlive)
                    THEN CatchupHours(args, now) ELSE <<>>
       IN /\ queue' = queue \o hours
          /\ sentOk' = sentOk \o hours
    /\ UNCHANGED <<now, running, args, runResult, activeKey, writer, openWriters,
                   segs, txAlive, rxAlive, wpc, wphase, wjob, woutcome, cpc,
                   cliLock, locks, handed>>
    /\ UNCHANGED nonRunVars

\* run.rs 93-95, 169-183: open_new_log_file_for_time(Utc::now()).
ROpenFirst ==
    /\ ipc = "open"
    /\ \E ok \in BOOLEAN :
        IF ok
        THEN /\ ipc' = "top"
             /\ activeKey' = floor_to_hour(now)
             /\ writer' = now
             /\ openWriters' = {now}
             /\ segs' = segs \cup {now}
             /\ UNCHANGED <<now, running, args, runResult, queue, txAlive,
                            rxAlive, wpc, wphase, wjob, woutcome, cpc, cliLock,
                            locks, sentOk, handed>>
        ELSE Fail("io_error")
    /\ UNCHANGED nonRunVars

\* run.rs 97: while running.load(SeqCst).
RTop ==
    /\ ipc = "top"
    /\ ipc' = IF running THEN "read" ELSE "final"
    /\ UNCHANGED <<now, running, args, runResult, activeKey, writer, openWriters,
                   segs, queue, txAlive, rxAlive, wpc, wphase, wjob, woutcome,
                   cpc, cliLock, locks, sentOk, handed>>
    /\ UNCHANGED nonRunVars

ReadOutcomes == {"zero", "data", "timeout", "error", "write_error"}

\* run.rs 108: Err(err) if err.kind() == io::ErrorKind::TimedOut => {}
every_error_passes(r) == r \in {"timeout", "error"}
is_timed_out(r) == r = "timeout"

\* What port.read returned, as the match at run.rs 98-112 sees it.
read_result(r) ==
    IF r = "zero" THEN "Ok(0)"
    ELSE IF r \in {"data", "write_error"} THEN "Ok(size)"
    ELSE IF r = "timeout" THEN "Err(TimedOut)"
    ELSE "Err(other)"

\* run.rs 98-112: one port.read and, for Ok(size) with size > 0, write_all,
\* the counters and nmea_monitor.ingest.
RRead ==
    /\ ipc = "read"
    /\ \E r \in ReadOutcomes :
        /\ lastRead' = read_result(r)
        /\ IF r = "zero" \/ (r \in {"timeout", "error"} /\ is_timed_out(r))
           THEN /\ ipc' = "rotate"
                /\ UNCHANGED <<now, running, args, runResult, activeKey,
                               writer, openWriters, segs, queue, txAlive,
                               rxAlive, wpc, wphase, wjob, woutcome, cpc,
                               cliLock, locks, sentOk, handed>>
                /\ UNCHANGED <<dev, total_bytes, stats_window_bytes, written,
                               monitor, emitted>>
           ELSE IF r \in {"timeout", "error"}
           THEN /\ Fail("read_error")
                /\ UNCHANGED <<dev, total_bytes, stats_window_bytes, written,
                               monitor, emitted>>
           ELSE \E size \in 1..(IF Len(dev) < MaxRead THEN Len(dev)
                                ELSE MaxRead) :
                  LET bytes == SubSeq(dev, 1, size)
                  IN /\ dev' = SubSeq(dev, size + 1, Len(dev))
                     /\ UNCHANGED emitted
                     /\ IF r = "data"
                        THEN /\ written' = write_all(written, writer, bytes)
                             /\ total_bytes' = total_bytes + size
                             /\ stats_window_bytes' = stats_window_bytes + size
                             /\ monitor' = ingest(monitor, bytes)
                             /\ ipc' = "rotate"
                             /\ UNCHANGED <<now, running, args, runResult,
                                            activeKey, writer, openWriters,
                                            segs, queue, txAlive, rxAlive, wpc,
                                            wphase, wjob, woutcome, cpc,
                                            cliLock, locks, sentOk, handed>>
                        ELSE /\ \E done \in 0..(size - 1) :
                                  written' = write_all(written, writer,
                                                       SubSeq(bytes, 1, done))
                             /\ Fail("io_error")
                             /\ UNCHANGED <<total_bytes, stats_window_bytes,
                                            monitor>>
    /\ UNCHANGED <<valVars, convVars, nmeaVars, ubxVars, recentVars>>

\* run.rs 123-124: std::mem::replace(&mut writer, new_writer), then
\* drop(old_writer) closes the file rotated away from.
keep_old_writer(open, old, new) == open \cup {new}
replace_writer(open, old, new) == (open \cup {new}) \ {old}

\* run.rs 119, 129: the job sent on a rotation is the bucket just closed.
new_hour_job(active_start, new_start) == new_start
closed_hour_job(active_start, new_start) == active_start

\* run.rs 114-136: the rotation check and, on an hour change, the rotation.
RRotate ==
    /\ ipc = "rotate"
    /\ LET hour_key == floor_to_hour(now)
           closed_hour == closed_hour_job(activeKey, floor_to_hour(now))
       IN IF hour_key # activeKey
          THEN /\ send_ready(wpc, queue)
               /\ \E io \in {"ok", "flush_err", "open_err"} :
                    IF io = "ok"
                    THEN /\ segs' = segs \cup {now}
                         /\ openWriters' = replace_writer(openWriters, writer, now)
                         /\ writer' = now
                         /\ activeKey' = hour_key
                         /\ queue' = send(queue, rxAlive, closed_hour)
                         /\ sentOk' = IF send_ok(rxAlive)
                                      THEN Append(sentOk, closed_hour) ELSE sentOk
                         /\ ipc' = "periodic"
                         /\ UNCHANGED <<now, running, args, runResult, txAlive,
                                        rxAlive, wpc, wphase, wjob, woutcome,
                                        cpc, cliLock, locks, handed>>
                    ELSE Fail("io_error")
          ELSE /\ ipc' = "periodic"
               /\ UNCHANGED <<now, running, args, runResult, activeKey, writer,
                              openWriters, segs, queue, txAlive, rxAlive, wpc,
                              wphase, wjob, woutcome, cpc, cliLock, locks,
                              sentOk, handed>>
    /\ lastRead' = "none"
    /\ UNCHANGED <<dev, total_bytes, stats_window_bytes, written, monitor,
                   emitted>>
    /\ UNCHANGED <<valVars, convVars, nmeaVars, ubxVars, recentVars>>

\* run.rs 138-156: periodic flush, statistics, nmea_monitor.maybe_emit_logs.
RPeriodic ==
    /\ ipc = "periodic"
    /\ \E ok, stats_due, elapsed_ok \in BOOLEAN :
        IF ok
        THEN /\ ipc' = "top"
             /\ stats_window_bytes' = IF stats_due THEN 0 ELSE stats_window_bytes
             /\ LET r == maybe_emit_logs(monitor, elapsed_ok)
                IN /\ monitor' = r.monitor
                   /\ emitted' = emitted \o r.lines
             /\ UNCHANGED <<dev, total_bytes, written, lastRead>>
             /\ UNCHANGED <<now, running, args, runResult, activeKey, writer,
                            openWriters, segs, queue, txAlive, rxAlive, wpc,
                            wphase, wjob, woutcome, cpc, cliLock, locks, sentOk,
                            handed>>
        ELSE Fail("io_error") /\ UNCHANGED dataVars
    /\ UNCHANGED <<valVars, convVars, nmeaVars, ubxVars, recentVars>>

\* run.rs 159-160: final flush, drop(convert_tx).
RFinal ==
    /\ ipc = "final"
    /\ \E ok \in BOOLEAN :
        IF ok
        THEN /\ ipc' = "join"
             /\ txAlive' = FALSE
             /\ UNCHANGED <<now, running, args, runResult, activeKey, writer,
                            openWriters, segs, queue, rxAlive, wpc, wphase, wjob,
                            woutcome, cpc, cliLock, locks, sentOk, handed>>
        ELSE Fail("io_error")
    /\ UNCHANGED nonRunVars

\* run.rs 161: JoinHandle::join returns once the worker thread has ended.
join_detached(w) == TRUE
join_returns(w) == w = "exited"

\* run.rs 161-165: convert_worker.join(), the total-bytes report, Ok(()).
RJoin ==
    /\ ipc = "join"
    /\ join_returns(wpc)
    /\ ipc' = "done"
    /\ runResult' = "ok"
    /\ openWriters' = {}
    /\ UNCHANGED <<now, running, args, activeKey, writer, segs, queue, txAlive,
                   rxAlive, wpc, wphase, wjob, woutcome, cpc, cliLock, locks,
                   sentOk, handed>>
    /\ UNCHANGED nonRunVars

\* ---------------------------------------------------- conversion worker
\* run.rs 209-210: recv_timeout returned Ok(hour).
WRecv ==
    /\ wpc = "recv"
    /\ queue # <<>>
    /\ wjob' = Head(queue)
    /\ queue' = Tail(queue)
    /\ handed' = Append(handed, Head(queue))
    /\ wphase' = "recv"
    /\ wpc' = "acquire"
    /\ UNCHANGED <<now, running, args, ipc, runResult, activeKey, writer,
                   openWriters, segs, txAlive, rxAlive, woutcome, cpc, cliLock,
                   locks, sentOk>>
    /\ UNCHANGED nonRunVars

\* Where the worker goes when a one-second wait timed out.
exit_without_drain(flag) == IF ~flag THEN "stopping" ELSE "recv"
after_timeout(flag) == IF ~flag THEN "drain" ELSE "recv"

\* run.rs 211-215: recv_timeout timed out; the run flag is looked at.
WTimeout ==
    /\ wpc = "recv"
    /\ queue = <<>>
    /\ txAlive
    /\ wpc' = after_timeout(running)
    /\ UNCHANGED <<now, running, args, ipc, runResult, activeKey, writer,
                   openWriters, segs, queue, txAlive, rxAlive, wphase, wjob,
                   woutcome, cpc, cliLock, locks, sentOk, handed>>
    /\ UNCHANGED nonRunVars

\* run.rs 216: the queue is empty and every Sender is gone.
WDisconnected ==
    /\ wpc = "recv"
    /\ queue = <<>>
    /\ ~txAlive
    /\ wpc' = "drain"
    /\ UNCHANGED <<now, running, args, ipc, runResult, activeKey, writer,
                   openWriters, segs, queue, txAlive, rxAlive, wphase, wjob,
                   woutcome, cpc, cliLock, locks, sentOk, handed>>
    /\ UNCHANGED nonRunVars

\* run.rs 221-222: try_recv returned Ok(hour).
WDrainRecv ==
    /\ wpc = "drain"
    /\ queue # <<>>
    /\ wjob' = Head(queue)
    /\ queue' = Tail(queue)
    /\ handed' = Append(handed, Head(queue))
    /\ wphase' = "drain"
    /\ wpc' = "acquire"
    /\ UNCHANGED <<now, running, args, ipc, runResult, activeKey, writer,
                   openWriters, segs, txAlive, rxAlive, woutcome, cpc, cliLock,
                   locks, sentOk>>
    /\ UNCHANGED nonRunVars

\* run.rs 221, 224: try_recv returned Err; "Conversion worker stopped" is printed.
WDrainEnd ==
    /\ wpc = "drain"
    /\ queue = <<>>
    /\ wpc' = "stopping"
    /\ UNCHANGED <<now, running, args, ipc, runResult, activeKey, writer,
                   openWriters, segs, queue, txAlive, rxAlive, wphase, wjob,
                   woutcome, cpc, cliLock, locks, sentOk, handed>>
    /\ UNCHANGED nonRunVars

\* run.rs 225: the function returns; rx is dropped with whatever it still holds.
WExit ==
    /\ wpc = "stopping"
    /\ wpc' = "exited"
    /\ rxAlive' = FALSE
    /\ queue' = <<>>
    /\ UNCHANGED <<now, running, args, ipc, runResult, activeKey, writer,
                   openWriters, segs, txAlive, wphase, wjob, woutcome, cpc,
                   cliLock, locks, sentOk, handed>>
    /\ UNCHANGED nonRunVars

\* Where conversion_worker_loop continues once convert_one_hour has returned.
stop_after_job(phase, outcome) == IF outcome = "success" THEN phase ELSE "stopping"
after_job(phase, outcome) == phase

\* run.rs 228-237: LockGuard::acquire(&convert_args.lock_file).
WAcquire ==
    /\ wpc = "acquire"
    /\ \E io_ok \in BOOLEAN :
        /\ locks' = acquire(locks, ConvertLock, "worker", io_ok)
        /\ IF acquire_ok(locks, ConvertLock, io_ok)
           THEN /\ wpc' = "avail"
                /\ UNCHANGED woutcome
           ELSE /\ wpc' = after_job(wphase, "lock_unavailable")
                /\ woutcome' = "lock_unavailable"
    /\ UNCHANGED <<now, running, args, ipc, runResult, activeKey, writer,
                   openWriters, segs, queue, txAlive, rxAlive, wphase, wjob, cpc,
                   cliLock, sentOk, handed>>
    /\ UNCHANGED nonRunVars

\* run.rs 239-245: ensure_converter_available.
WAvail ==
    /\ wpc = "avail"
    /\ \E ok \in BOOLEAN :
        IF ok
        THEN /\ wpc' = "convert"
             /\ UNCHANGED <<locks, woutcome>>
        ELSE /\ wpc' = after_job(wphase, "converter_unavailable")
             /\ woutcome' = "converter_unavailable"
             /\ locks' = drop_lock(locks, ConvertLock, "worker")
    /\ UNCHANGED <<now, running, args, ipc, runResult, activeKey, writer,
                   openWriters, segs, queue, txAlive, rxAlive, wphase, wjob, cpc,
                   cliLock, sentOk, handed>>
    /\ UNCHANGED nonRunVars

\* run.rs 247-253, convert.rs 64-79: convert_hour_utc, then the lock is dropped.
WConvert ==
    /\ wpc = "convert"
    /\ LET files == list_hour_ubx_files(segs, wjob)
       IN \E res \in {"ok", "err"} :
            LET outcome == IF res = "err" THEN "workflow_error"
                           ELSE IF files = {} THEN "skipped" ELSE "success"
            IN /\ woutcome' = outcome
               /\ segs' = IF outcome = "success" /\ ~args.keep_ubx
                          THEN segs \ files ELSE segs
               /\ wpc' = after_job(wphase, outcome)
    /\ locks' = drop_lock(locks, ConvertLock, "worker")
    /\ UNCHANGED <<now, running, args, ipc, runResult, activeKey, writer,
                   openWriters, queue, txAlive, rxAlive, wphase, wjob, cpc,
                   cliLock, sentOk, handed>>
    /\ UNCHANGED nonRunVars

\* ------------------------------------------- a separate `convert` command
\* convert.rs 18-32: run_convert with some --lock-file; LockGuard::acquire(..)?
CAcquire ==
    /\ cpc = "idle"
    /\ \E path \in LockPaths, io_ok \in BOOLEAN :
        /\ locks' = acquire(locks, path, "cli", io_ok)
        /\ IF acquire_ok(locks, path, io_ok)
           THEN cpc' = "avail" /\ cliLock' = path
           ELSE cpc' = "idle" /\ UNCHANGED cliLock
    /\ UNCHANGED <<now, running, args, ipc, runResult, activeKey, writer,
                   openWriters, segs, queue, txAlive, rxAlive, wpc, wphase, wjob,
                   woutcome, sentOk, handed>>
    /\ UNCHANGED nonRunVars

\* convert.rs 34-47: total_hours check and ensure_converter_available.
CAvail ==
    /\ cpc = "avail"
    /\ \E ok \in BOOLEAN :
        IF ok
        THEN cpc' = "convert" /\ UNCHANGED <<locks, cliLock>>
        ELSE /\ cpc' = "idle"
             /\ locks' = drop_lock(locks, cliLock, "cli")
             /\ cliLock' = ConvertLock
    /\ UNCHANGED <<now, running, args, ipc, runResult, activeKey, writer,
                   openWriters, segs, queue, txAlive, rxAlive, wpc, wphase, wjob,
                   woutcome, sentOk, handed>>
    /\ UNCHANGED nonRunVars

\* convert.rs 49-61, 36-38: the window (the hours up to one hour before now,
\* newest first) is walked up to its end or the first failing hour, the command
\* returns and its lock is dropped; converted hours lose their segment files.
CConvert ==
    /\ cpc = "convert"
    /\ LET anchor == floor_to_hour(now - TicksPerHour)
           win == {h \in {floor_to_hour(f) : f \in segs} : h <= anchor}
       IN \E cut \in win \cup {anchor + 1} :
            segs' = segs \ {f \in segs : floor_to_hour(f) \in win
                                          /\ floor_to_hour(f) >= cut}
    /\ cpc' = "idle"
    /\ locks' = drop_lock(locks, cliLock, "cli")
    /\ cliLock' = ConvertLock
    /\ UNCHANGED <<now, running, args, ipc, runResult, activeKey, writer,
                   openWriters, queue, txAlive, rxAlive, wpc, wphase, wjob,
                   woutcome, sentOk, handed>>
    /\ UNCHANGED nonRunVars

\* ------------------------------------------------------- environment
\* signal.rs 10-12: the Ctrl-C handler stores false.
handler_toggle(flag) == ~flag
handler_store(flag) == FALSE

Signal ==
    /\ ipc \notin {"done", "failed"}
    /\ running' = handler_store(running)
    /\ UNCHANGED <<now, args, ipc, runResult, activeKey, writer, openWriters,
                   segs, queue, txAlive, rxAlive, wpc, wphase, wjob, woutcome,
                   cpc, cliLock, locks, sentOk, handed>>
    /\ UNCHANGED nonRunVars

\* Time passes.
Tick ==
    /\ now < MaxNow
    /\ now' = now + 1
    /\ UNCHANGED <<running, args, ipc, runResult, activeKey, writer, openWriters,
                   segs, queue, txAlive, rxAlive, wpc, wphase, wjob, woutcome,
                   cpc, cliLock, locks, sentOk, handed>>
    /\ UNCHANGED nonRunVars

IngestNext ==
    \/ RStartup \/ RSpawn \/ RCatchup \/ ROpenFirst \/ RTop \/ RRead
    \/ RRotate \/ RPeriodic \/ RFinal \/ RJoin

WorkerNext ==
    \/ WRecv \/ WTimeout \/ WDisconnected \/ WDrainRecv \/ WDrainEnd \/ WExit
    \/ WAcquire \/ WAvail \/ WConvert

CliNext == CAcquire \/ CAvail \/ CConvert


\* ------------------------------------------------- product file names
\* File names are sequences of one-character strings.
\* str::to_ascii_lowercase
keep_case(name) == name
to_ascii_lowercase(name) ==
    [i \in 1..Len(name) |->
        IF \E k \in 1..26 : UpperCase[k] = name[i]
        THEN LowerCase[CHOOSE k \in 1..26 : UpperCase[k] = name[i]]
        ELSE name[i]]

\* str::contains, str::ends_with
contains(str, pat) ==
    \E i \in 1..(Len(str) - Len(pat) + 1) : SubSeq(str, i, i + Len(pat) - 1) = pat
ends_with(str, suffix) ==
    /\ Len(str) >= Len(suffix)
    /\ SubSeq(str, Len(str) - Len(suffix) + 1, Len(str)) = suffix

DotGz == <<".","g","z">>
DotRnx == <<".","r","n","x">>
DotCrx == <<".","c","r","x">>

\* convert.rs 609-618: strip ".gz", take the text after the last '.', look at
\* its last character.
classify_rinex2_short_kind(lower_name) ==
    LET trimmed == IF ends_with(lower_name, DotGz)
                   THEN SubSeq(lower_name, 1, Len(lower_name) - 3)
                   ELSE lower_name
        dots == {i \in 1..Len(trimmed) : trimmed[i] = "."}
        ext == IF dots = {} THEN trimmed
               ELSE SubSeq(trimmed,
                           (CHOOSE i \in dots : \A j \in dots : j <= i) + 1,
                           Len(trimmed))
    IN IF ext = <<>> THEN "None"
       ELSE IF ext[Len(ext)] \in {"o", "d"} THEN "Observation"
       ELSE IF ext[Len(ext)] \in {"n", "g", "l", "p", "q"} THEN "Navigation"
       ELSE "None"

\* convert.rs 581-607
classify_output_name(name) ==
    LET lower == to_ascii_lowercase(name)
    IN IF contains(lower, <<"_","n","a","v","s","e","t",".","t","a","r",".","g","z">>)
       THEN "Navigation"
       ELSE IF contains(lower, <<"_","m","n",".">>) THEN "Navigation"
       ELSE IF contains(lower, <<"_","m","o",".">>) THEN "Observation"
       ELSE IF ends_with(lower, DotCrx) \/ ends_with(lower, DotCrx \o DotGz)
       THEN "Observation"
       ELSE IF ends_with(lower, DotRnx) \/ ends_with(lower, DotRnx \o DotGz)
       THEN "Observation"
       ELSE IF classify_rinex2_short_kind(lower) = "None" THEN "Other"
       ELSE classify_rinex2_short_kind(lower)

\* convert.rs 569-571
is_output_product_name(name) == classify_output_name(name) # "Other"

\* Model hour h is 2024-01-01 (day of year 001), (9 + h):00 UTC.
HourText(h) == <<Digits[((9 + h) \div 10) + 1], Digits[((9 + h) % 10) + 1]>>

\* convert.rs 227-235, 286-293: the long-name prefix, station NJIT, country USA.
LongPrefix(h) ==
    <<"N","J","I","T","0","0","U","S","A","_","R","_","2","0","2","4","0","0","1">>
    \o HourText(h) \o <<"_","0","1","H">>

\* convert.rs 236, 275: the gzipped observation file (30 s sampling).
ObsName(h) == LongPrefix(h) \o <<"_","3","0","S","_","M","O">> \o DotRnx \o DotGz
\* convert.rs 297, 314: the gzipped mixed navigation file.
NavMixedName(h) == LongPrefix(h) \o <<"_","M","N">> \o DotRnx \o DotGz
\* convert.rs 353: the per-constellation navigation bundle.
NavSetName(h) ==
    LongPrefix(h) \o <<"_","N","A","V","S","E","T",".","t","a","r",".","g","z">>
\* convert.rs 94: the merged input in the workspace.
MergedName(h) ==
    <<"m","e","r","g","e","d","_","2","0","2","4","0","1","0","1","_">>
    \o HourText(h) \o <<".","u","b","x">>

\* run.rs 175: a segment file, "%Y%m%d_%H%M%S" and ".ubx".
SegmentName ==
    <<"2","0","2","4","0","1","0","1","_","0","9","1","5","3","0",
      ".","u","b","x">>

\* ------------------------------------------------ paths and file names
None == <<>>

\* str::find: the first position at which pat occurs in str, 0 if nowhere.
find(str, pat) ==
    LET hits == {i \in 1..(Len(str) - Len(pat) + 1) :
                    SubSeq(str, i, i + Len(pat) - 1) = pat}
    IN IF hits = {} THEN 0 ELSE CHOOSE i \in hits : \A j \in hits : i <= j

is_ascii_digit(c) == \E i \in 1..Len(Digits) : Digits[i] = c

\* convert.rs 692-697: "{year}{doy:03}{hour}00" for the target hour.
TargetEpoch(h) == <<"2","0","2","4","0","0","1">> \o HourText(h) \o <<"0","0">>

\* convert.rs 728-744: the name with its 11-digit `_R_` epoch replaced, or None.
rewrite_long_name_epoch(file_name, target_epoch) ==
    LET marker == <<"_","R","_">>
        at == find(file_name, marker)
        start == at + Len(marker)
        remaining == SubSeq(file_name, start, Len(file_name))
        epoch_end_rel == find(remaining, <<"_">>)
        epoch == SubSeq(remaining, 1, epoch_end_rel - 1)
    IN IF at = 0 THEN None
       ELSE IF epoch_end_rel = 0 THEN None
       ELSE IF \/ Len(epoch) # 11
               \/ \E i \in 1..Len(epoch) : ~is_ascii_digit(epoch[i])
               \/ epoch = target_epoch
       THEN None
       ELSE SubSeq(file_name, 1, start - 1) \o target_epoch
            \o SubSeq(remaining, epoch_end_rel, Len(remaining))

\* Byte order of the characters that occur in the file names.
AsciiOrder == <<".">> \o Digits \o UpperCase \o <<"_">> \o LowerCase
byte_rank(c) == CHOOSE i \in 1..Len(AsciiOrder) : AsciiOrder[i] = c

\* Ord for paths of one directory: byte-wise comparison of the file names.
RECURSIVE path_less(_, _)
path_less(a, b) ==
    IF a = <<>> THEN b # <<>>
    ELSE IF b = <<>> THEN FALSE
    ELSE IF Head(a) = Head(b) THEN path_less(Tail(a), Tail(b))
    ELSE byte_rank(Head(a)) < byte_rank(Head(b))

\* outputs.sort() on the paths collected from one directory.
RECURSIVE sort_paths(_)
sort_paths(S) ==
    IF S = {} THEN <<>>
    ELSE LET m == CHOOSE x \in S : \A y \in S \ {x} : path_less(x, y)
         IN <<m>> \o sort_paths(S \ {m})

\* format!("{idx}")
RECURSIVE to_string(_)
to_string(n) ==
    IF n < 10 THEN <<Digits[n + 1]>>
    ELSE to_string(n \div 10) \o <<Digits[(n % 10) + 1]>>

\* convert.rs 858: format!("{base}.dup{idx}")
DupName(base, idx) == base \o <<".","d","u","p">> \o to_string(idx)

\* convert.rs 857-862: for idx in 1.. { if !candidate.exists() { return } }
RECURSIVE first_unused_dup(_, _, _)
first_unused_dup(existing, base, idx) ==
    IF DupName(base, idx) \notin existing THEN DupName(base, idx)
    ELSE first_unused_dup(existing, base, idx + 1)

\* convert.rs 849-864: existing is the set of names present in dst_dir.
first_try_path(existing, file_name) == file_name
unique_destination_path(existing, file_name) ==
    IF file_name \notin existing THEN file_name
    ELSE first_unused_dup(existing, file_name, 1)

\* convert.rs 699-721: the loop renaming each output whose epoch differs.
RECURSIVE normalize_from(_, _, _, _)
normalize_from(i, outs, files, target_epoch) ==
    IF i > Len(outs) THEN [outputs |-> outs, files |-> files]
    ELSE LET normalized_name == rewrite_long_name_epoch(outs[i], target_epoch)
             destination == unique_destination_path(files, normalized_name)
         IN IF normalized_name = None
            THEN normalize_from(i + 1, outs, files, target_epoch)
            ELSE normalize_from(i + 1, [outs EXCEPT ![i] = destination],
                                (files \ {outs[i]}) \cup {destination},
                                target_epoch)

\* convert.rs 688-725: renames in the directory, then outputs.sort().
normalize_long_output_names_for_target_hour(outs, files, h) ==
    LET n == normalize_from(1, outs, files, TargetEpoch(h))
    IN [outputs |-> sort_paths({n.outputs[i] : i \in 1..Len(n.outputs)}),
        files |-> n.files]

\* convert.rs 505-530: the product files of a directory, sorted.
collect_output_products_in_dir(files) ==
    sort_paths({n \in files : is_output_product_name(n)})

\* --------------------------------------------------- output validation
\* convert.rs 556: navigation is wanted unless skip_nav.
nav_always_required(skip_nav) == TRUE
nav_required(skip_nav) == ~skip_nav

\* convert.rs 537-547: the loop over the outputs setting has_obs and has_nav.
RECURSIVE scan_outputs(_, _)
scan_outputs(outs, flags) ==
    IF outs = <<>> THEN flags
    ELSE LET kind == classify_output_name(Head(outs))
         IN scan_outputs(Tail(outs),
                [has_obs |-> flags.has_obs \/ kind = "Observation",
                 has_nav |-> flags.has_nav \/ kind = "Navigation"])

\* convert.rs 532-566: Ok(()) or the error, whose text carries the label.
validate_hour_outputs(outs, skip_nav, label) ==
    LET flags == scan_outputs(outs, [has_obs |-> FALSE, has_nav |-> FALSE])
    IN IF ~flags.has_obs
       THEN [ok |-> FALSE, error |-> "no observation product generated for",
             label |-> label]
       ELSE IF nav_required(skip_nav) /\ ~flags.has_nav
       THEN [ok |-> FALSE, error |-> "no navigation product generated for",
             label |-> label]
       ELSE [ok |-> TRUE, error |-> "", label |-> NoHour]

NotCalled == [ok |-> FALSE, error |-> "not called", label |-> NoHour]

\* Largest number of collected outputs tried.
MaxOutputs == 3
\* Hours named by the label.
MaxHour == 1

\* File names a converter run may leave behind.
NamePool ==
    {ObsName(0), NavMixedName(0), NavSetName(0), MergedName(0),
     <<"n","j","i","t","0","0","1","j",".","2","4","o">>,
     <<"n","j","i","t","0","0","1","j",".","2","4","n",".","g","z">>,
     <<"N","J","I","T",".","C","R","X">>,
     <<"c","o","n","v","b","i","n",".","t","r","a","c","e">>,
     SegmentName, <<"R","I","N","E","X","_","i","n","f","o">>}

DistinctSeqs(S, n) ==
    {q \in UNION {[1..k -> S] : k \in 0..n} :
        \A i, j \in 1..Len(q) : i # j => q[i] # q[j]}

\* The run-mode state of a process that is not in run mode, with the given
\* segment files in data_dir.
RunParkedWith(files) ==
    /\ now = 0
    /\ running = TRUE
    /\ args \in ArgSets(0)
    /\ args.keep_ubx = FALSE
    /\ ipc = "none"
    /\ runResult = "none"
    /\ activeKey = NoHour
    /\ writer = NoFile
    /\ openWriters = {}
    /\ segs = files
    /\ queue = <<>>
    /\ txAlive = FALSE
    /\ rxAlive = FALSE
    /\ wpc = "unspawned"
    /\ wphase = "recv"
    /\ wjob = NoHour
    /\ woutcome = "none"
    /\ cpc = "none"
    /\ cliLock = ConvertLock
    /\ locks = [p \in LockPaths |-> {}]
    /\ sentOk = <<>>
    /\ handed = <<>>

ValParked ==
    /\ vOutputs = <<>>
    /\ vSkipNav = FALSE
    /\ vHour = 0
    /\ vResult = NotCalled

ValInit ==
    /\ vOutputs \in DistinctSeqs(NamePool, MaxOutputs)
    /\ vSkipNav \in BOOLEAN
    /\ vHour \in 0..MaxHour
    /\ vResult = NotCalled

\* convert.rs 119: validate_hour_outputs(&outputs, args.skip_nav, &hour_label)
Validate ==
    /\ vResult = NotCalled
    /\ vResult' = validate_hour_outputs(vOutputs, vSkipNav, vHour)
    /\ UNCHANGED <<vOutputs, vSkipNav, vHour>>
    /\ UNCHANGED <<runVars, convVars, dataVars, nmeaVars, ubxVars,
                 recentVars>>

\* ------------------------------------------- per-hour conversion workflow
\* Largest number of conversion attempts in one behaviour.
MaxAttempts == 3

\* ConvertArgs: the fields the workflow branches on.
ConvArgSets ==
    [skip_nav : BOOLEAN, keep_ubx : BOOLEAN,
     nav_output_format : {"Mixed", "IndividualTarGz"}]

NoResult == [status |-> "none", step |-> "none"]
NoArchive == [n \in {} |-> [by |-> 0, whole |-> FALSE]]

\* A process that runs no conversion workflow.
ConvParked ==
    /\ cargs = [skip_nav |-> FALSE, keep_ubx |-> FALSE,
                nav_output_format |-> "Mixed"]
    /\ ppc = "none"
    /\ pHour = NoHour
    /\ ubx_files = {}
    /\ workspaces = {}
    /\ work_dir = 0
    /\ wsFiles = {}
    /\ outputs = <<>>
    /\ stored = <<>>
    /\ archive = NoArchive
    /\ attempt = 0
    /\ pResult = NoResult
    /\ warned = FALSE

\* Ticks of the hours 0..MaxHour; data_dir starts with the segments opened
\* up to some tick.
HourTicks == 0..(TicksPerHour * (MaxHour + 1) - 1)

ConvInit ==
    /\ cargs \in ConvArgSets
    /\ ppc = "idle"
    /\ pHour = NoHour
    /\ ubx_files = {}
    /\ workspaces = {}
    /\ work_dir = 0
    /\ wsFiles = {}
    /\ outputs = <<>>
    /\ stored = <<>>
    /\ archive = NoArchive
    /\ attempt = 0
    /\ pResult = NoResult
    /\ warned = FALSE

\* convert.rs 90: the guard is a local of process_hour, dropped on every
\* return whatever the result.
dropped_on_success(status) == status = "ok"
guard_dropped(status) == TRUE

\* convert.rs 772-784: remove_dir_all on the workspace; a failure is only
\* reported.
remove_dir_all(dirs, dir, rm_ok) == IF rm_ok THEN dirs \ {dir} ELSE dirs

\* process_hour returns with the workspace guard in scope.
Return(status, step) ==
    /\ \E rm_ok \in BOOLEAN :
         /\ workspaces' = IF guard_dropped(status)
                          THEN remove_dir_all(workspaces, work_dir, rm_ok)
                          ELSE workspaces
         /\ warned' = (guard_dropped(status) /\ ~rm_ok)
    /\ pResult' = [status |-> status, step |-> step]
    /\ ppc' = "idle"
    /\ wsFiles' = {}

\* convert.rs 64-79: convert_hour_utc lists the hour's segments and calls
\* process_hour unless there are none.
PStart ==
    /\ ppc = "idle"
    /\ attempt < MaxAttempts
    /\ \E hour \in 0..MaxHour :
         LET files == list_hour_ubx_files(segs, hour)
         IN /\ pHour' = hour
            /\ ubx_files' = files
            /\ IF files = {}
               THEN /\ ppc' = "idle"
                    /\ pResult' = [status |-> "skipped", step |-> "none"]
               ELSE /\ ppc' = "workspace"
                    /\ pResult' = NoResult
    /\ attempt' = attempt + 1
    /\ work_dir' = 0
    /\ wsFiles' = {}
    /\ outputs' = <<>>
    /\ stored' = <<>>
    /\ warned' = FALSE
    /\ UNCHANGED <<cargs, workspaces, archive, segs>>
    /\ UNCHANGED nonConvVars

\* convert.rs 89-90, 746-760: create_conversion_workspace and the guard. The
\* workspace name carries the nanosecond clock: one name per attempt. A
\* failure returns before the guard exists.
PWorkspace ==
    /\ ppc = "workspace"
    /\ \E io_ok \in BOOLEAN :
         IF io_ok
         THEN /\ work_dir' = attempt
              /\ workspaces' = workspaces \cup {attempt}
              /\ ppc' = "snapshot"
              /\ UNCHANGED pResult
         ELSE /\ pResult' = [status |-> "err", step |-> "workspace"]
              /\ ppc' = "idle"
              /\ UNCHANGED <<work_dir, workspaces>>
    /\ UNCHANGED <<cargs, pHour, ubx_files, wsFiles, outputs, stored, archive,
                   attempt, segs, warned>>
    /\ UNCHANGED nonConvVars

\* convert.rs 91: snapshot_output_products(&args.data_dir)?
PSnapshot ==
    /\ ppc = "snapshot"
    /\ \E io_ok \in BOOLEAN :
         IF io_ok
         THEN /\ ppc' = "concat"
              /\ UNCHANGED <<workspaces, warned, pResult, wsFiles>>
         ELSE Return("err", "snapshot")
    /\ UNCHANGED <<cargs, pHour, ubx_files, work_dir, outputs, stored, archive,
                   attempt, segs>>
    /\ UNCHANGED nonConvVars

\* convert.rs 94-95: concat_ubx_files into merged_<hour>.ubx.
PConcat ==
    /\ ppc = "concat"
    /\ \E io_ok \in BOOLEAN :
         IF io_ok
         THEN /\ wsFiles' = wsFiles \cup {MergedName(pHour)}
              /\ ppc' = "obs"
              /\ UNCHANGED <<workspaces, warned, pResult>>
         ELSE Return("err", "merge")
    /\ UNCHANGED <<cargs, pHour, ubx_files, work_dir, outputs, stored, archive,
                   attempt, segs>>
    /\ UNCHANGED nonConvVars

\* convert.rs 97, 216-277: the observation converter run, the check that the
\* file exists and is not empty, gzip.
PObs ==
    /\ ppc = "obs"
    /\ \E outcome \in {"ok", "exit_status", "missing_product", "gzip_failed"} :
         IF outcome = "ok"
         THEN /\ wsFiles' = wsFiles \cup {ObsName(pHour)}
              /\ ppc' = IF ~cargs.skip_nav THEN "nav" ELSE "collect"
              /\ UNCHANGED <<workspaces, warned, pResult>>
         ELSE Return("err", outcome)
    /\ UNCHANGED <<cargs, pHour, ubx_files, work_dir, outputs, stored, archive,
                   attempt, segs>>
    /\ UNCHANGED nonConvVars

\* convert.rs 296-355: the file run_convbin_nav_for_hour leaves behind.
NavName(format, h) ==
    IF format = "Mixed" THEN NavMixedName(h) ELSE NavSetName(h)

\* convert.rs 296-355: a failed per-constellation run is skipped, so the
\* bundle format fails only for want of any file or in bundling.
NavOutcomes(format) ==
    IF format = "Mixed"
    THEN {"ok", "exit_status", "missing_product", "gzip_failed"}
    ELSE {"ok", "missing_product", "bundle_failed"}

\* convert.rs 98-100, 279-362: the navigation converter run(s); the gzipped
\* mixed file or the bundle of the per-constellation files.
PNav ==
    /\ ppc = "nav"
    /\ \E outcome \in NavOutcomes(cargs.nav_output_format) :
         IF outcome = "ok"
         THEN /\ wsFiles' = wsFiles \cup {NavName(cargs.nav_output_format, pHour)}
              /\ ppc' = "collect"
              /\ UNCHANGED <<workspaces, warned, pResult>>
         ELSE Return("err", outcome)
    /\ UNCHANGED <<cargs, pHour, ubx_files, work_dir, outputs, stored, archive,
                   attempt, segs>>
    /\ UNCHANGED nonConvVars

\* convert.rs 661-684: the products of data_dir that are new or changed.
collect_changed_output_products(before, after) == sort_paths(after \ before)

\* convert.rs 102-119: collect the products of the workspace (data_dir, where
\* the converter is not told to write, holds no product before or after),
\* normalize the names, validate.
PCollect ==
    /\ ppc = "collect"
    /\ LET in_dir == collect_output_products_in_dir(wsFiles)
           collected == IF in_dir = <<>>
                        THEN collect_changed_output_products({}, {})
                        ELSE in_dir
           n == normalize_long_output_names_for_target_hour(collected, wsFiles,
                                                            pHour)
           v == validate_hour_outputs(n.outputs, cargs.skip_nav, pHour)
       IN \E io_ok \in BOOLEAN :
            IF ~io_ok THEN /\ Return("err", "collect")
                           /\ UNCHANGED outputs
            ELSE IF ~v.ok THEN /\ Return("err", "validation")
                               /\ UNCHANGED outputs
            ELSE /\ outputs' = n.outputs
                 /\ wsFiles' = n.files
                 /\ ppc' = "mkdir"
                 /\ UNCHANGED <<workspaces, warned, pResult>>
    /\ UNCHANGED <<cargs, pHour, ubx_files, work_dir, stored, archive, attempt,
                   segs>>
    /\ UNCHANGED nonConvVars

\* convert.rs 128-131: create_dir_all(archive/<year>/<doy>).
PMkdir ==
    /\ ppc = "mkdir"
    /\ \E io_ok \in BOOLEAN :
         IF io_ok
         THEN /\ ppc' = "move"
              /\ UNCHANGED <<workspaces, warned, pResult, wsFiles>>
         ELSE Return("err", "archiving")
    /\ UNCHANGED <<cargs, pHour, ubx_files, work_dir, outputs, stored, archive,
                   attempt, segs>>
    /\ UNCHANGED nonConvVars

\* A file written at dst by this attempt: rename and copy replace what is
\* there.
put(dir, dst, by, whole) ==
    [n \in DOMAIN dir \cup {dst} |->
        IF n = dst THEN [by |-> by, whole |-> whole] ELSE dir[n]]

\* convert.rs 133-135, 867-888: move_into_dir for the next output: rename, or
\* copy and remove the source; stored collects the paths it returns.
PMove ==
    /\ ppc = "move"
    /\ Len(stored) < Len(outputs)
    /\ LET src == outputs[Len(stored) + 1]
           dst == unique_destination_path(DOMAIN archive, src)
       IN \E outcome \in {"renamed", "copied", "copy_failed", "remove_failed"} :
            IF outcome \in {"renamed", "copied"}
            THEN /\ archive' = put(archive, dst, attempt, TRUE)
                 /\ wsFiles' = wsFiles \ {src}
                 /\ stored' = Append(stored, dst)
                 /\ UNCHANGED <<workspaces, warned, pResult, ppc>>
            ELSE IF outcome = "copy_failed"
            THEN /\ \E left \in BOOLEAN :
                      archive' = IF left THEN put(archive, dst, attempt, FALSE)
                                 ELSE archive
                 /\ Return("err", "archiving")
                 /\ UNCHANGED stored
            ELSE /\ archive' = put(archive, dst, attempt, TRUE)
                 /\ Return("err", "archiving")
                 /\ UNCHANGED stored
    /\ UNCHANGED <<cargs, pHour, ubx_files, work_dir, outputs, attempt, segs>>
    /\ UNCHANGED nonConvVars

\* convert.rs 137: the inputs go unless --keep-ubx.
always_remove_inputs(keep_ubx) == TRUE
should_remove_inputs(keep_ubx) == ~keep_ubx

\* The files a removal loop over files (sorted by name) has removed when it
\* stops at its first failure, or at the end.
RemovalPrefixes(files) == {{f \in files : f < k} : k \in files} \cup {files}

\* convert.rs 137-143: after the last move, remove the inputs and return.
PRemove ==
    /\ ppc = "move"
    /\ Len(stored) = Len(outputs)
    /\ IF should_remove_inputs(cargs.keep_ubx)
       THEN \E removed \in RemovalPrefixes(ubx_files) :
              /\ segs' = segs \ removed
              /\ Return(IF removed = ubx_files THEN "ok" ELSE "err", "remove")
       ELSE /\ segs' = segs
            /\ Return("ok", "remove")
    /\ UNCHANGED <<cargs, pHour, ubx_files, work_dir, outputs, stored, archive,
                   attempt>>
    /\ UNCHANGED nonConvVars

NextConv ==
    \/ PStart \/ PWorkspace \/ PSnapshot \/ PConcat \/ PObs \/ PNav
    \/ PCollect \/ PMkdir \/ PMove \/ PRemove

InitConv ==
    /\ \E last \in HourTicks : RunParkedWith({f \in HourTicks : f <= last})
    /\ DataQuiet
    /\ NmeaParked /\ UbxParked
    /\ ValParked
    /\ ConvInit
    /\ RecentParked

\* Conversion attempts, one after another, on the hours 0..MaxHour.
SpecConv == InitConv /\ [][NextConv]_vars

\* What a segment file holds: nothing, or the start of a UBX frame.
SegmentBytes(f, firstData) == IF f < firstData THEN <<>> ELSE <<181, 98>>

\* data_dir holds every segment of the hours 0..MaxHour; the segments opened
\* before some tick of hour 0 received no byte before the rotation.
InitConvSizes ==
    /\ RunParkedWith(HourTicks)
    /\ NmeaParked /\ UbxParked
    /\ ValParked
    /\ ConvInit
    /\ dev = <<>>
    /\ total_bytes = 0
    /\ stats_window_bytes = 0
    /\ monitor = monitor_new(1, "Raw")
    /\ emitted = <<>>
    /\ lastRead = "none"
    /\ \E firstData \in 0..TicksPerHour :
         written = [f \in HourTicks |-> SegmentBytes(f, firstData)]
    /\ RecentParked

\* Conversion attempts on a data_dir where some segment files are empty.
SpecConvSizes == InitConvSizes /\ [][NextConv]_vars

\* ------------------------------------------------------ specifications
\* Run mode without a catch-up backlog (--max-days-back 0), next to a
\* separately started `convert` command.
Init == RunInit(0) /\ DataQuiet /\ NmeaParked /\ UbxParked /\ ValParked /\ ConvParked
    /\ RecentParked

Next == IngestNext \/ WorkerNext \/ CliNext \/ Signal \/ Tick

Spec == Init /\ [][Next]_vars

\* Largest --max-days-back and --shift-hours tried for the startup catch-up.
MaxDaysBack == 1
MaxShiftHours == 1

\* RunArgs for the startup catch-up: with and without --no-convert-on-start.
CatchupArgSets ==
    [convert_on_start : BOOLEAN, shift_hours : 0..MaxShiftHours,
     max_days_back : 0..MaxDaysBack, keep_ubx : {FALSE}]

InitCatchup ==
    /\ \E start \in 0..(TicksPerHour - 1) : RunInitArgs(CatchupArgSets, start)
    /\ DataQuiet
    /\ NmeaParked /\ UbxParked
    /\ ValParked
    /\ ConvParked
    /\ RecentParked

NextCatchup == IngestNext \/ WorkerNext \/ Signal \/ Tick

\* Run mode with a startup catch-up backlog, no other process.
SpecCatchup == InitCatchup /\ [][NextCatchup]_vars

\* main.rs 226, run.rs 20-21: the command is started again after the previous
\* process ended (run_mode returned, and with it every thread of the process);
\* the data directory and the clock are what the previous process left.
Restart ==
    /\ ipc \in {"done", "failed"}
    /\ wpc \in {"unspawned", "exited", "killed"}
    /\ running' = TRUE
    /\ ipc' = "start"
    /\ runResult' = "none"
    /\ activeKey' = NoHour
    /\ writer' = NoFile
    /\ openWriters' = {}
    /\ queue' = <<>>
    /\ txAlive' = FALSE
    /\ rxAlive' = FALSE
    /\ wpc' = "unspawned"
    /\ wphase' = "recv"
    /\ wjob' = NoHour
    /\ woutcome' = "none"
    /\ sentOk' = <<>>
    /\ handed' = <<>>
    /\ locks' = drop_lock(locks, ConvertLock, "worker")
    /\ UNCHANGED <<now, args, segs, cpc, cliLock>>
    /\ UNCHANGED nonRunVars

InitRestart ==
    /\ \E start \in 0..(TicksPerHour - 1) : RunInitArgs(ArgSets(0), start)
    /\ args.keep_ubx = FALSE
    /\ DataQuiet
    /\ NmeaParked /\ UbxParked
    /\ ValParked
    /\ ConvParked
    /\ RecentParked

NextRestart == IngestNext \/ WorkerNext \/ Signal \/ Tick \/ Restart

\* Run mode started again each time it has ended, on one data directory.
SpecRestart == InitRestart /\ [][NextRestart]_vars

\* What the receiver delivers: an NMEA sentence, or the start of a UBX frame.
DevStreams == {Bytes(<<"$","R","M","C">>) \o <<LF>>, <<181, 98>>}

\* The loop starts one tick before the clock stops: at most one rotation.
InitIngest ==
    /\ RunInitArgs(ArgSets(0), MaxNow - 1)
    /\ args.keep_ubx = FALSE
    /\ DataInit(DevStreams, {0, 1})
    /\ NmeaParked /\ UbxParked
    /\ ValParked
    /\ ConvParked
    /\ RecentParked

NextIngest == IngestNext \/ WorkerNext \/ Signal \/ Tick

\* Run mode with a receiver that delivers bytes, no other process.
SpecIngest == InitIngest /\ [][NextIngest]_vars

\* Run mode under a fair scheduler: the two threads keep being scheduled, so
\* every read returns and every conversion attempt ends.
SpecLive ==
    /\ InitIngest
    /\ [][NextIngest]_vars
    /\ WF_vars(IngestNext)
    /\ WF_vars(WorkerNext)

\* Largest number of ingest and of maybe_emit_logs calls on one monitor.
MaxIngests == 4
MaxEmits == 2

\* What one ingest call is given: whole sentences, line ends, the start of a
\* sentence, and a byte outside the allowed set.
NmeaChunks ==
    {RmcSentence, GsaSentence, CRLF, <<LF>>, <<0>>,
     Bytes(<<"$","G","P">>), RmcLater \o <<LF>>, GllSentence \o <<LF>>}

NmeaFormats == {"Raw", "Plain", "Both"}

\* A monitor as NmeaMonitor::new leaves it, for --nmea-log-interval-secs 0
\* and 1 and every --nmea-log-format.
InitNmea ==
    /\ RunParkedWith({})
    /\ ValParked
    /\ ConvParked
    /\ NmeaParked /\ UbxParked
    /\ dev = <<>>
    /\ total_bytes = 0
    /\ stats_window_bytes = 0
    /\ written = [f \in {} |-> <<>>]
    /\ monitor \in {monitor_new(i, f) : i \in {0, 1}, f \in NmeaFormats}
    /\ emitted = <<>>
    /\ lastRead = "none"
    /\ RecentParked

\* One call of NmeaMonitor::ingest; stream is every byte given so far and
\* captured every sentence push_bytes has pushed to `sentences`.
NIngestFrom(chunks) ==
    /\ ingestCalls < MaxIngests
    /\ \E bytes \in chunks :
        /\ monitor' = ingest(monitor, bytes)
        /\ stream' = stream \o bytes
        /\ captured' = captured \o
                          (IF interval_is_none(monitor.interval) THEN <<>>
                           ELSE push_bytes(monitor.collector, bytes).out)
    /\ ingestCalls' = ingestCalls + 1
    /\ UNCHANGED <<dev, total_bytes, stats_window_bytes, written, emitted,
                   lastRead, emitTicks>>
    /\ UNCHANGED <<runVars, valVars, convVars, ubxVars, recentVars>>

NIngest == NIngestFrom(NmeaChunks)

\* One call of NmeaMonitor::maybe_emit_logs, before or after the interval
\* has elapsed.
NEmit ==
    /\ emitTicks < MaxEmits
    /\ \E elapsed_ok \in BOOLEAN :
        LET r == maybe_emit_logs(monitor, elapsed_ok)
        IN /\ monitor' = r.monitor
           /\ emitted' = emitted \o r.lines
    /\ emitTicks' = emitTicks + 1
    /\ UNCHANGED <<dev, total_bytes, stats_window_bytes, written, lastRead,
                   stream, captured, ingestCalls>>
    /\ UNCHANGED <<runVars, valVars, convVars, ubxVars, recentVars>>

NextNmea == NIngest \/ NEmit

\* An NmeaMonitor under any sequence of ingest and maybe_emit_logs calls.
SpecNmea == InitNmea /\ [][NextNmea]_vars

\* A capture one byte short of MAX_SENTENCE_LEN: '$' and letters A.
LongCapture == <<Dollar>> \o [i \in 1..(MAX_SENTENCE_LEN - 2) |-> 65]

\* What the collector is given byte by byte: '$', '\n', '\r', a control byte,
\* a byte above ASCII, a letter; and in one piece the start of a sentence.
CollectChunks ==
    {<<Dollar>>, <<LF>>, <<CR>>, <<0>>, <<200>>, <<65>>, <<Dollar, 65>>}

\* A new collector, or one that has been given LongCapture.
InitCollect ==
    /\ RunParkedWith({})
    /\ ValParked
    /\ ConvParked
    /\ UbxParked
    /\ dev = <<>>
    /\ total_bytes = 0
    /\ stats_window_bytes = 0
    /\ written = [f \in {} |-> <<>>]
    /\ stream \in {<<>>, LongCapture}
    /\ monitor = [monitor_new(1, "Raw") EXCEPT
                    !.collector = IF stream = <<>> THEN collector_new
                                  ELSE [capturing |-> TRUE, buf |-> stream]]
    /\ captured = <<>>
    /\ ingestCalls = 0
    /\ emitTicks = 0
    /\ emitted = <<>>
    /\ lastRead = "none"
    /\ RecentParked

\* One call of push_bytes (through NmeaMonitor::ingest) with a few bytes.
NPush == NIngestFrom(CollectChunks)

NextCollect == NPush

\* The sentence collector fed byte by byte.
SpecCollect == InitCollect /\ [][NextCollect]_vars

\* ------------------------------------------------- UBX command encoder
\* Err(..) of the token parsers and of the packet builders; None of to_digit.
Invalid == <<>>
NoPacket == <<>>
NoDigit == -1

\* char::to_digit(radix) as from_str_radix uses it.
HexChars == <<"0","1","2","3","4","5","6","7","8","9","a","b","c","d","e","f">>
to_digit(c, radix) ==
    LET lc == to_ascii_lowercase(<<c>>)[1]
        hits == {i \in 1..radix : HexChars[i] = lc}
    IN IF hits = {} THEN NoDigit ELSE (CHOOSE i \in hits : TRUE) - 1

\* A u32 as its two 16-bit halves <<high, low>>.
U32(high, low) == <<high, low>>

\* u32::from_str_radix / str::parse::<u32>: digits only (one leading '+'
\* allowed), not empty; checked_mul and checked_add fail past u32::MAX.
RECURSIVE from_digits(_, _, _)
from_digits(acc, digits, radix) ==
    IF digits = <<>> THEN acc
    ELSE LET d == to_digit(Head(digits), radix)
             low == acc[2] * radix + d
             high == acc[1] * radix + low \div 2^16
         IN IF d = NoDigit \/ high >= 2^16 THEN Invalid
            ELSE from_digits(U32(high, low % 2^16), Tail(digits), radix)

from_str_radix(text, radix) ==
    LET digits == IF text # <<>> /\ text[1] = "+" THEN Tail(text) ELSE text
    IN IF digits = <<>> THEN Invalid ELSE from_digits(U32(0, 0), digits, radix)

\* str::starts_with
starts_with(str, prefix) ==
    Len(str) >= Len(prefix) /\ SubSeq(str, 1, Len(prefix)) = prefix

\* log.rs 299-305
parse_u32_token(raw) ==
    IF starts_with(raw, <<"0","x">>) \/ starts_with(raw, <<"0","X">>)
    THEN from_str_radix(SubSeq(raw, 3, Len(raw)), 16)
    ELSE from_str_radix(raw, 10)

\* log.rs 291, 296: u8::try_from, u16::try_from succeed below 2^bits.
try_from_width(bits) == bits

\* log.rs 289-297: parse_u8_token (bits = 8), parse_u16_token (bits = 16).
parse_token(raw, bits) ==
    LET value == parse_u32_token(raw)
    IN IF value = Invalid THEN Invalid
       ELSE IF value[1] # 0 \/ value[2] >= 2^try_from_width(bits) THEN Invalid
       ELSE <<value[2]>>

parse_u8_token(raw) == parse_token(raw, 8)
parse_u16_token(raw) == parse_token(raw, 16)

\* u16::to_le_bytes, and u32::to_le_bytes of the two halves.
to_be_bytes(value) == <<value \div 256, value % 256>>
to_le_bytes(value) == <<value % 256, value \div 256>>
u32_to_le_bytes(value) == to_le_bytes(value[2]) \o to_le_bytes(value[1])

\* u8::wrapping_add
saturating_add(x, y) == IF x + y > 255 THEN 255 ELSE x + y
wrapping_add(x, y) == (x + y) % 256

\* main.rs 830-838
RECURSIVE checksum_from(_, _, _)
checksum_from(ck_a, ck_b, data) ==
    IF data = <<>> THEN <<ck_a, ck_b>>
    ELSE LET a == wrapping_add(ck_a, Head(data))
         IN checksum_from(a, wrapping_add(ck_b, a), Tail(data))

ubx_checksum(data) == checksum_from(0, 0, data)

\* main.rs 819-828; (payload.len() as u16).to_le_bytes()
build_ubx_packet(class, id, payload) ==
    LET packet == <<181, 98, class, id>>
                    \o to_le_bytes(Len(payload) % 2^16) \o payload
    IN packet \o ubx_checksum(SubSeq(packet, 3, Len(packet)))

\* log.rs 192-216: UBX-CFG-MSG, class 0x06 id 0x01.
build_cfg_msg_packet(a) ==
    IF Len(a) # 8 THEN NoPacket
    ELSE LET v == [i \in 1..8 |-> parse_u8_token(a[i])]
         IN IF \E i \in 1..8 : v[i] = Invalid THEN NoPacket
            ELSE build_ubx_packet(6, 1, [i \in 1..8 |-> v[i][1]])

\* GnssId::try_from accepts the constellation ids of the protocol.
GnssIds == 0..6

\* log.rs 219-259: UBX-CFG-GNSS with one config block, class 0x06 id 0x3E.
build_cfg_gnss_packet(a) ==
    IF Len(a) # 9 THEN NoPacket
    ELSE LET v == [i \in 1..8 |-> parse_u8_token(a[i])]
             flags == parse_u32_token(a[9])
         IN IF \E i \in 1..8 : v[i] = Invalid THEN NoPacket
            ELSE IF v[4][1] # 1 \/ v[5][1] \notin GnssIds \/ flags = Invalid
            THEN NoPacket
            ELSE build_ubx_packet(6, 62, [i \in 1..8 |-> v[i][1]]
                                         \o u32_to_le_bytes(flags))

\* log.rs 262-286: UBX-CFG-RATE, class 0x06 id 0x08.
build_cfg_rate_packet(a) ==
    IF Len(a) # 3 THEN NoPacket
    ELSE LET v == [i \in 1..3 |-> parse_u16_token(a[i])]
         IN IF \E i \in 1..3 : v[i] = Invalid THEN NoPacket
            ELSE IF v[3][1] \notin 0..4 THEN NoPacket
            ELSE build_ubx_packet(6, 8, to_le_bytes(v[1][1])
                                  \o to_le_bytes(v[2][1]) \o to_le_bytes(v[3][1]))

CfgMsg == <<"C","F","G","-","M","S","G">>
CfgGnss == <<"C","F","G","-","G","N","S","S">>
CfgRate == <<"C","F","G","-","R","A","T","E">>

\* log.rs 182-189
build_ubx_packet_from_config(command, a) ==
    IF command = CfgMsg THEN build_cfg_msg_packet(a)
    ELSE IF command = CfgGnss THEN build_cfg_gnss_packet(a)
    ELSE IF command = CfgRate THEN build_cfg_rate_packet(a)
    ELSE NoPacket

\* char::is_whitespace, for the characters a config file holds.
is_whitespace(c) == c \in {" ", "\t"}

\* str::trim
RECURSIVE trim(_)
trim(text) ==
    IF text = <<>> THEN text
    ELSE IF is_whitespace(Head(text)) THEN trim(Tail(text))
    ELSE IF is_whitespace(text[Len(text)])
    THEN trim(SubSeq(text, 1, Len(text) - 1))
    ELSE text

\* str::split_whitespace: the maximal runs of non-whitespace, in order.
RECURSIVE split_whitespace_from(_, _, _)
split_whitespace_from(text, word, tokens) ==
    IF text = <<>>
    THEN IF word = <<>> THEN tokens ELSE Append(tokens, word)
    ELSE IF is_whitespace(Head(text))
    THEN split_whitespace_from(Tail(text), <<>>,
                               IF word = <<>> THEN tokens
                               ELSE Append(tokens, word))
    ELSE split_whitespace_from(Tail(text), Append(word, Head(text)), tokens)

split_whitespace(text) == split_whitespace_from(text, <<>>, <<>>)

Directive == <<"!","U","B","X"," ">>

\* log.rs 160, 171: the line number an error carries.
zero_based(line_idx) == line_idx
line_number(line_idx) == line_idx + 1

\* log.rs 147-176: the loop of parse_ubx_config from line index line_idx on.
RECURSIVE parse_lines(_, _, _)
parse_lines(lines, line_idx, packets) ==
    IF line_idx >= Len(lines)
    THEN [ok |-> TRUE, packets |-> packets, line |-> 0, called |-> TRUE]
    ELSE LET raw == lines[line_idx + 1]
             line == trim(SubSeq(raw, 1, first_index(raw, "#") - 1))
             tokens == split_whitespace(line)
             failed == [ok |-> FALSE, packets |-> <<>>,
                        line |-> line_number(line_idx), called |-> TRUE]
         IN IF line = <<>> \/ ~starts_with(line, Directive)
            THEN parse_lines(lines, line_idx + 1, packets)
            ELSE IF Len(tokens) < 3 THEN failed
            ELSE LET packet == build_ubx_packet_from_config(
                                  tokens[2], SubSeq(tokens, 3, Len(tokens)))
                 IN IF packet = NoPacket THEN failed
                    ELSE parse_lines(lines, line_idx + 1,
                                     Append(packets, packet))

\* log.rs 142-179, for a file that could be read.
parse_ubx_config(lines) == parse_lines(lines, 0, <<>>)

\* A line of words, one space between them.
RECURSIVE Line(_)
Line(words) ==
    IF words = <<>> THEN <<>>
    ELSE IF Len(words) = 1 THEN words[1]
    ELSE words[1] \o <<" ">> \o Line(Tail(words))

Ubx == <<"!","U","B","X">>
T0 == <<"0">>
T1 == <<"1">>
T255 == <<"2","5","5">>
T256 == <<"2","5","6">>
THexF0 == <<"0","x","F","0">>
T1000 == <<"1","0","0","0">>

\* Lines that are not directives: blank, spaces only, a comment, a note, a
\* directive name without the space after it.
SkipLines ==
    {<<>>, <<" "," ">>, <<"#"," ","!","U","B","X"," ","x">>,
     <<"n","o","t","e">>, <<"!","U","B","X","-","1"," ","2"," ","3">>}

\* Well-formed directive lines: indented, with a trailing comment, with hex
\* arguments.
MsgLine == <<" ">> \o Line(<<Ubx, CfgMsg, THexF0, T255, T0, T1, T0, T1, T0, T255>>)
RateLine == Line(<<Ubx, CfgRate, T1000, T1, T1>>) \o <<" ","#","r">>
GnssLine ==
    Line(<<Ubx, CfgGnss, T0, T0, T255, T1, T0, T1, T1, T0,
           <<"0","X","0","1","0","0","0","1","F","F">> >>)
GoodLines == {MsgLine, RateLine, GnssLine}

\* Malformed directive lines: an argument too wide, too few arguments, an
\* unknown command, no argument at all, a time_ref out of range.
BadLines ==
    {Line(<<Ubx, CfgMsg, T1, T256, T0, T1, T0, T1, T0, T0>>),
     Line(<<Ubx, CfgMsg, T1, T1, T0>>),
     Line(<<Ubx, <<"C","F","G","-","F","O","O">>, T1>>),
     Line(<<Ubx, CfgRate>>),
     Line(<<Ubx, CfgRate, T1000, T1, T255>>)}

LinePool == SkipLines \cup GoodLines \cup BadLines

\* Largest number of lines in a config file.
MaxLines == 3

\* Arguments of a message-rate command.
ByteTokens == {T1, T255, THexF0}

\* The config files: up to MaxLines lines of the pool, or one message-rate
\* command with any eight byte arguments.
ConfigFiles ==
    UNION {[1..n -> LinePool] : n \in 0..MaxLines}
    \cup {<<Line(<<Ubx, CfgMsg>> \o a)>> : a \in [1..8 -> ByteTokens]}

InitUbx ==
    /\ RunParkedWith({})
    /\ DataQuiet
    /\ NmeaParked
    /\ ValParked
    /\ ConvParked
    /\ config \in ConfigFiles
    /\ ubxResult = NotParsed
    /\ RecentParked

\* run.rs 30, log.rs 40: parse_ubx_config(&args.config_file).
ParseConfig ==
    /\ ~ubxResult.called
    /\ ubxResult' = parse_ubx_config(config)
    /\ UNCHANGED config
    /\ UNCHANGED <<runVars, valVars, convVars, dataVars, nmeaVars,
                 recentVars>>

NextUbx == ParseConfig

\* parse_ubx_config applied to a config file.
SpecUbx == InitUbx /\ [][NextUbx]_vars

\* ------------------------------------------------ startup of run and log
\* The `run` and `log` commands with a config file path that names a file or
\* nothing, and a serial port path that names a device or nothing.
StartupArgSets ==
    [convert_on_start : {TRUE}, shift_hours : {1}, max_days_back : {0},
     keep_ubx : {FALSE}, command : {"run", "log"},
     config_file : {"missing.dat", "ubx.dat"},
     serial_port : {"absent", "ttyACM0"}]

\* Contents of ubx.dat: no line, a note only, one command, two commands, a
\* command followed by a malformed one.
StartupConfigs ==
    {<<>>, << <<"n","o","t","e">> >>, <<MsgLine>>, <<MsgLine, RateLine>>,
     <<RateLine, Line(<<Ubx, CfgRate>>)>>}

\* run.rs 39, log.rs 38: packets.is_empty().
never_empty(packets) == FALSE
is_empty(packets) == packets = <<>>

\* run.rs 24-54, log.rs 28-53: the first `?` or bail! that returns, in source
\* order; "none" when the port has been opened.
startup_error(a, lines, l) ==
    IF a.command = "log" /\ ~acquire_ok(l, LoggerLock, TRUE)
    THEN "lock_held"
    ELSE IF a.config_file = "missing.dat" THEN "config_unreadable"
    ELSE IF ~parse_ubx_config(lines).ok THEN "config_invalid"
    ELSE IF is_empty(parse_ubx_config(lines).packets) THEN "no_commands"
    ELSE IF a.serial_port = "absent" THEN "port_open_failed"
    ELSE "none"

\* run.rs 21-65 and log.rs 26-64: lock (log), parse_ubx_config, the serial
\* port, send_ubx_packets; then run mode spawns its worker and the log command
\* opens its first file. A LockGuard taken by a failed start is dropped again.
Configure ==
    /\ ipc = "start"
    /\ ubxResult' = IF startup_error(args, config, locks)
                        \in {"lock_held", "config_unreadable"}
                     THEN ubxResult
                     ELSE parse_ubx_config(config)
    /\ \E sent \in BOOLEAN :
         IF startup_error(args, config, locks) # "none"
         THEN Fail(startup_error(args, config, locks))
         ELSE IF ~sent THEN Fail("send_failed")
         ELSE /\ ipc' = IF args.command = "run" THEN "spawn" ELSE "open"
              /\ locks' = IF args.command = "log"
                          THEN acquire(locks, LoggerLock, "logger", TRUE)
                          ELSE locks
              /\ UNCHANGED <<now, running, args, runResult, activeKey, writer,
                             openWriters, segs, queue, txAlive, rxAlive, wpc,
                             wphase, wjob, woutcome, cpc, cliLock, sentOk,
                             handed>>
    /\ UNCHANGED config
    /\ UNCHANGED <<valVars, convVars, dataVars, nmeaVars,
                 recentVars>>

\* log.rs 106-108: the log command has no worker to join: final flush, the
\* total-bytes report, Ok(()).
LReturn ==
    /\ ipc = "join"
    /\ args.command = "log"
    /\ ipc' = "done"
    /\ runResult' = "ok"
    /\ openWriters' = {}
    /\ UNCHANGED <<now, running, args, activeKey, writer, segs, queue, txAlive,
                   rxAlive, wpc, wphase, wjob, woutcome, cpc, cliLock, locks,
                   sentOk, handed>>
    /\ UNCHANGED nonRunVars

\* log.rs 34, lock.rs 38-43: `_lock` is dropped when run_log_with_signal
\* returns.
LDropLock ==
    /\ ipc \in {"done", "failed"}
    /\ "logger" \in locks[LoggerLock]
    /\ locks' = drop_lock(locks, LoggerLock, "logger")
    /\ UNCHANGED <<now, running, args, ipc, runResult, activeKey, writer,
                   openWriters, segs, queue, txAlive, rxAlive, wpc, wphase,
                   wjob, woutcome, cpc, cliLock, sentOk, handed>>
    /\ UNCHANGED nonRunVars

\* Another `log` process takes the logger lock first.
OtherLogger ==
    /\ ipc = "start"
    /\ acquire_ok(locks, LoggerLock, TRUE)
    /\ locks' = acquire(locks, LoggerLock, "other", TRUE)
    /\ UNCHANGED <<now, running, args, ipc, runResult, activeKey, writer,
                   openWriters, segs, queue, txAlive, rxAlive, wpc, wphase,
                   wjob, woutcome, cpc, cliLock, sentOk, handed>>
    /\ UNCHANGED nonRunVars

InitStartup ==
    /\ RunInitArgs(StartupArgSets, MaxNow - 1)
    /\ DataQuiet
    /\ NmeaParked
    /\ config \in StartupConfigs
    /\ ubxResult = NotParsed
    /\ ValParked
    /\ ConvParked
    /\ RecentParked

\* The logging loop of the log command (log.rs 66-109) is the loop of run mode
\* without worker, statistics and monitor: its rotation sends no job.
NextStartup ==
    \/ Configure \/ OtherLogger \/ LReturn \/ LDropLock
    \/ RSpawn \/ RCatchup \/ ROpenFirst \/ RTop \/ RRead \/ RRotate
    \/ RPeriodic \/ RFinal \/ RJoin
    \/ WorkerNext \/ Signal \/ Tick

\* The run and log commands from their start, on any config file and device.
SpecStartup == InitStartup /\ [][NextStartup]_vars

InitValidate ==
    RunParkedWith({}) /\ DataQuiet /\ NmeaParked /\ UbxParked /\ ValInit /\ ConvParked
    /\ RecentParked

NextValidate == Validate

\* validate_hour_outputs applied to any collected output list.
SpecValidate == InitValidate /\ [][NextValidate]_vars

\* ------------------------------------------------------------- claims
Converting == {"avail", "convert"}
InJob == {"acquire", "avail", "convert"}
LoopPcs == {"top", "read", "rotate", "periodic"}

\* C1: the worker and a concurrently started `convert` command that uses the
\* worker's lock path are never both inside a conversion attempt (the worker
\* itself has one job in hand at a time: wjob).
C1_NoTwoConversions ==
    ~(wpc \in Converting /\ cpc \in Converting /\ cliLock = ConvertLock)

\* C1 witness: the `convert` command is converting under the worker's lock path
\* and the worker's attempt on a job was turned away by the lock.
C1_Witness ==
    /\ cpc = "convert"
    /\ cliLock = ConvertLock
    /\ woutcome = "lock_unavailable"
    /\ wpc \in {"recv", "drain"}

\* C2 (as claimed): once the worker thread has exited, every hour whose send
\* returned Ok has been handed to convert_one_hour.
C2_AllSentHanded == wpc = "exited" => handed = sentOk

\* C3: whatever the outcome of a job, the worker goes back to the receive loop
\* it was in, and the step changes neither the position nor the result of
\* run_mode nor the run flag or the sender.
C3_OutcomeNeverStops ==
    [][(wpc \in InJob /\ wpc' \notin InJob /\ wpc' # "killed")
        => /\ wpc' \in {"recv", "drain"}
           /\ wpc' = wphase
           /\ woutcome' \in {"lock_unavailable", "converter_unavailable",
                             "workflow_error", "skipped", "success"}
           /\ UNCHANGED <<ipc, runResult, running, txAlive, rxAlive>>]_vars

\* C3 witness: after a failed workflow the worker is converting a later job
\* while the ingestion loop is still reading.
C3_Witness ==
    /\ woutcome = "workflow_error"
    /\ wpc = "convert"
    /\ Len(handed) >= 2
    /\ ipc = "read"

\* What a completed rotation step does, apart from the enqueue.
RotationDone ==
    /\ openWriters \ openWriters' = {writer}
    /\ openWriters' \ openWriters = {now}
    /\ segs' \ segs = {now}
    /\ writer' = now
    /\ activeKey' = floor_to_hour(now)

C9_IngestNeverWaits == ipc \in LoopPcs => ENABLED IngestNext

\* C9 witness: the loop has just enqueued a job behind another one while the
\* worker is busy converting.
C9_Witness ==
    /\ ipc = "periodic"
    /\ wpc = "convert"
    /\ Len(queue) >= 1
    /\ Len(sentOk) >= 2

\* C10: no lock path has two holders; an acquire on a held path fails in the
\* same step (the acquiring step is never disabled) and takes nothing from
\* the holder, who loses the lock only by dropping its own guard.
C10_AtMostOneGuard ==
    [][/\ \A path \in LockPaths : Cardinality(locks'[path]) <= 1
       /\ (wpc = "acquire" => ENABLED WAcquire)
       /\ (cpc = "idle" => ENABLED CAcquire)
       /\ \A path \in LockPaths :
            /\ ("worker" \in locks[path] /\ wpc' \in Converting)
                  => "worker" \in locks'[path]
            /\ ("cli" \in locks[path] /\ cpc' \in Converting)
                  => "cli" \in locks'[path]]_vars

\* C10 witness: the worker was refused the lock the `convert` command holds,
\* which still holds it.
C10_Witness ==
    /\ locks[ConvertLock] = {"cli"}
    /\ woutcome = "lock_unavailable"
    /\ cpc \in Converting

HasKind(outs, kind) ==
    \E i \in 1..Len(outs) : classify_output_name(outs[i]) = kind

\* C6: validation succeeds exactly when an Observation product is present
\* and, unless skip_nav, a Navigation product too; a failure names the hour;
\* {_MO., _MN.} passes, {_MO.} alone fails with navigation required and
\* passes with skip_nav.
C6_ValidateExactly ==
    vResult # NotCalled =>
        /\ vResult.ok <=> (HasKind(vOutputs, "Observation")
                           /\ (vSkipNav \/ HasKind(vOutputs, "Navigation")))
        /\ ~vResult.ok => vResult.label = vHour
        /\ (vOutputs = <<NavMixedName(0), ObsName(0)>> /\ ~vSkipNav) => vResult.ok
        /\ (vOutputs = <<ObsName(0)>> /\ ~vSkipNav) => ~vResult.ok
        /\ (vOutputs = <<ObsName(0)>> /\ vSkipNav) => vResult.ok

\* C6 witness: validation of the observation product alone was refused with
\* the error naming hour 1.
C6_Witness ==
    /\ vOutputs = <<ObsName(0)>>
    /\ ~vSkipNav
    /\ vHour = 1
    /\ vResult = [ok |-> FALSE, error |-> "no navigation product generated for",
                  label |-> 1]

\* C4 (as claimed): whenever process_hour has returned, by success or by any
\* failure, no workspace directory of any attempt exists.
C4_NoWorkspaceSurvives == ppc = "idle" => workspaces = {}

\* C4 (amended): when process_hour has returned, the workspace it created is
\* gone unless remove_dir_all failed on it, and then the cleanup warning was
\* printed.
C4_WorkspaceGoneOrWarned ==
    (ppc = "idle" /\ work_dir # 0 /\ work_dir \in workspaces) => warned

\* C4 witness: an attempt that created a workspace failed in archiving and
\* returned with no workspace left.
C4_Witness ==
    /\ ppc = "idle"
    /\ pResult = [status |-> "err", step |-> "archiving"]
    /\ work_dir # 0
    /\ workspaces = {}

\* Every output of the attempt is in the archive, whole, under the path
\* move_into_dir returned for it, and the outputs passed validation.
AllStored ==
    /\ outputs # <<>>
    /\ validate_hour_outputs(outputs, cargs.skip_nav, pHour).ok
    /\ Len(stored) = Len(outputs)
    /\ \A i \in 1..Len(stored) :
         /\ stored[i] \in DOMAIN archive
         /\ archive[stored[i]] = [by |-> attempt, whole |-> TRUE]

\* C5: after a failure at any step before the removal of the inputs (merge,
\* converter exit status, missing product, validation, archiving, ...) every
\* segment file listed for the hour still exists; a step removes segment
\* files only of that hour, only after all validated outputs were moved into
\* the archive, and never with keep_ubx.
C5_InputsKeptOnFailure ==
    /\ []((pResult.status = "err" /\ pResult.step # "remove")
            => ubx_files \subseteq segs)
    /\ [][segs' # segs =>
            /\ segs' \subseteq segs
            /\ segs \ segs' \subseteq ubx_files
            /\ AllStored
            /\ ~cargs.keep_ubx]_vars

\* C5 witness: without keep_ubx, an attempt failed in archiving after it had
\* moved its first output, and the inputs of the hour are all there.
C5_Witness ==
    /\ ppc = "idle"
    /\ pResult = [status |-> "err", step |-> "archiving"]
    /\ ~cargs.keep_ubx
    /\ Len(stored) >= 1
    /\ ubx_files # {}
    /\ ubx_files \subseteq segs

\* C7: no step removes or changes a file of the archive; a name that appears
\* in the archive is the name of the output being moved if that was unused,
\* else that name with .dup<k> for the first k whose name was unused.
C7_ArchiveNeverOverwrites ==
    [][/\ \A n \in DOMAIN archive :
            n \in DOMAIN archive' /\ archive'[n] = archive[n]
       /\ \A n \in DOMAIN archive' \ DOMAIN archive :
            LET name == outputs[Len(stored) + 1]
            IN \/ n = name
               \/ /\ name \in DOMAIN archive
                  /\ \E k \in 1..MaxAttempts :
                       /\ n = DupName(name, k)
                       /\ \A j \in 1..(k - 1) :
                            DupName(name, j) \in DOMAIN archive]_vars

\* C7 witness: three attempts on hour 0 each archived an observation file:
\* the first under its name, the next two as .dup1 and .dup2.
C7_Witness ==
    /\ {ObsName(0), DupName(ObsName(0), 1), DupName(ObsName(0), 2)}
         \subseteq DOMAIN archive
    /\ archive[ObsName(0)].by = 1
    /\ archive[DupName(ObsName(0), 1)].by = 2
    /\ archive[DupName(ObsName(0), 2)].by = 3

\* The hours whose send returned Ok in this step.
SentInStep == SubSeq(sentOk', Len(sentOk) + 1, Len(sentOk'))

\* The catch-up call enqueued, behind what was queued, 24 x max_days_back
\* hours: the hour of (now - shift_hours) first, then each preceding hour.
CatchupAllEnqueued ==
    /\ Len(SentInStep) = 24 * args.max_days_back
    /\ \A i \in 1..Len(SentInStep) :
         SentInStep[i] =
            floor_to_hour(now - args.shift_hours * TicksPerHour) - (i - 1)
    /\ \A i, j \in 1..Len(SentInStep) : i < j => SentInStep[i] > SentInStep[j]
    /\ queue' = queue \o SentInStep

C12_EmptyReadIsNoOp ==
    [][ipc = "read" =>
        /\ lastRead' \in {"Ok(0)", "Err(TimedOut)"} =>
              /\ ipc' = "rotate"
              /\ runResult' = runResult
              /\ UNCHANGED <<written, total_bytes, stats_window_bytes, monitor,
                             emitted>>
        /\ lastRead' = "Err(other)" =>
              /\ ipc' = "failed"
              /\ runResult' = "read_error"]_vars

\* C12 witness: after bytes were written and the monitor has begun a
\* sentence, a read timed out and the loop is at the rotation check.
C12_Witness ==
    /\ ipc = "rotate"
    /\ lastRead = "Err(TimedOut)"
    /\ total_bytes > 0
    /\ monitor.collector.capturing

\* C13 (as stated): once the ingestion loop has seen the run flag false at the
\* top of a cycle it flushes the active writer, drops the sender and goes on
\* to join the worker: from the final flush run_mode always reaches the join.
C13_ShutdownAlwaysCompletes ==
    [][ipc = "final" => ipc' \in {"final", "join"}]_vars

\* C13 (amended): seeing the flag false at the top of a cycle leads to the
\* final flush and to no further read; the final flush happens once; when it
\* succeeds the sender is dropped, then the worker is joined, and only after
\* the worker has ended run_mode reports the unchanged total and returns Ok;
\* when it fails run_mode returns that error without joining.
C13_ShutdownOrder ==
    /\ [](ipc = "done" => runResult = "ok" /\ ~txAlive /\ wpc = "exited")
    /\ [][ipc = "top" /\ ~running /\ ipc' # ipc => ipc' = "final"]_vars
    /\ [][ipc = "final" /\ ipc' # ipc =>
            ((ipc' = "join" /\ ~txAlive' /\ runResult' = runResult)
             \/ (ipc' = "failed" /\ runResult' = "io_error"))]_vars
    /\ [][ipc = "join" /\ ipc' # ipc =>
            ipc' = "done" /\ wpc = "exited" /\ ~txAlive]_vars
    /\ [][(ipc \in {"final", "join", "done"}) =>
            (ipc' \notin {"top", "read", "rotate", "periodic"}
             /\ total_bytes' = total_bytes /\ written' = written
             /\ dev' = dev /\ lastRead' = lastRead)]_vars
    /\ [][(ipc \in {"join", "done", "failed"}) => ipc' # "final"]_vars

\* C13 witness: run_mode has returned Ok after writing bytes, with jobs the
\* worker took before it ended.
C13_Witness ==
    /\ ipc = "done"
    /\ runResult = "ok"
    /\ total_bytes > 0
    /\ wpc = "exited"

Returned == ipc \in {"done", "failed"}
WorkerEnded == wpc \in {"unspawned", "exited", "killed"}

\* C14 (as stated): after a cancellation request the ingestion loop and the
\* worker both eventually exit and run_mode returns, and the worker needs no
\* more than one polling tick of its own once the flag is cleared: its next
\* return from recv_timeout takes it out of the receive loop.
C14_WorkerExitsOnNextPoll ==
    /\ ~running ~> (Returned /\ WorkerEnded)
    /\ [][~running /\ wpc = "recv" /\ wpc' # wpc =>
            wpc' \in {"drain", "killed"}]_vars

\* C14 (amended): after a cancellation request, with both threads scheduled,
\* the ingestion loop and the worker both eventually exit and run_mode
\* returns; once the flag is cleared the worker leaves its receive loop at the
\* first recv_timeout that finds the queue empty, and takes every job that
\* recv_timeout returns before that.
C14_ShutdownTerminates ==
    /\ ~running ~> (Returned /\ WorkerEnded)
    /\ [][~running /\ wpc = "recv" /\ wpc' # wpc =>
            IF queue = <<>>
            THEN wpc' \in {"drain", "killed"}
            ELSE wpc' \in {"acquire", "killed"}]_vars

\* C14 witness: the flag was cleared with a job still queued, and both the
\* ingestion loop and the worker have ended.
C14_Witness ==
    /\ ~running
    /\ ipc = "done"
    /\ wpc = "exited"
    /\ handed # <<>>

EndsWith(text, tail) ==
    /\ Len(text) >= Len(tail)
    /\ SubSeq(text, Len(text) - Len(tail) + 1, Len(text)) = tail

\* The bytes of text before its last n bytes.
Before(text, n) == SubSeq(text, 1, Len(text) - n)

\* The sentences a fresh collector pushes out for the given bytes.
Collected(bytes) == push_bytes(collector_new, bytes).out

TerminatedPair == RmcSentence \o CRLF \o GsaSentence \o CRLF
UnterminatedPair == RmcSentence \o GsaSentence \o CRLF

\* C15 (as stated): for a byte stream with `$GNRMC,...*hh\r\n` immediately
\* followed by a second `$` sentence, the collector discards the first
\* sentence and captures only the second.
C15_FirstSentenceDiscarded ==
    (monitor.interval # 0 /\ EndsWith(stream, TerminatedPair)) =>
        captured = Collected(Before(stream, Len(TerminatedPair)))
                     \o <<GsaSentence>>

\* C15 (amended): when `$GNRMC,...*hh` is followed by a second `$` sentence
\* with no newline in between, the collector discards the first and captures
\* only the second, which becomes the latest GSA sentence; when the first is
\* ended by \r\n both are captured, in order.
C15_RestartOnDollar ==
    monitor.interval # 0 =>
        /\ EndsWith(stream, UnterminatedPair) =>
              /\ captured = Collected(Before(stream, Len(UnterminatedPair)))
                              \o <<GsaSentence>>
              /\ monitor.latest[Bytes(<<"G","S","A">>)] = GsaSentence
              /\ ~monitor.collector.capturing
        /\ EndsWith(stream, TerminatedPair) =>
              captured = Collected(Before(stream, Len(TerminatedPair)))
                           \o <<RmcSentence, GsaSentence>>

\* C15 witness: the unterminated RMC sentence ran into a GSA sentence and only
\* the GSA sentence was captured.
C15_Witness ==
    /\ monitor.interval # 0
    /\ stream = UnterminatedPair
    /\ captured = <<GsaSentence>>

\* C16: a monitor created with interval 0 is inert: every ingest, whatever the
\* bytes, leaves the collector (capturing flag, buffer), the latest-sentence
\* map and the dirty flags as NmeaMonitor::new made them, and
\* maybe_emit_logs prints nothing, after any sequence of the two calls.
C16_IntervalZeroInert ==
    /\ [](monitor.interval = 0 =>
            /\ monitor = monitor_new(0, monitor.format)
            /\ ~monitor.collector.capturing
            /\ monitor.collector.buf = <<>>
            /\ DOMAIN monitor.latest = {}
            /\ DOMAIN monitor.updated_since_emit = {}
            /\ emitted = <<>>)
    /\ [][monitor.interval = 0 =>
            (monitor' = monitor /\ emitted' = emitted)]_vars

\* C16 witness: a monitor with interval 0 was given a whole RMC line and the
\* start of another sentence, and maybe_emit_logs was called twice.
C16_Witness ==
    /\ monitor.interval = 0
    /\ stream = RmcSentence \o CRLF \o Bytes(<<"$","G","P">>)
    /\ emitTicks = MaxEmits

\* The sum of the first k bytes of data.
RECURSIVE SumTo(_, _)
SumTo(data, k) == IF k = 0 THEN 0 ELSE SumTo(data, k - 1) + data[k]

\* The sum of all the prefix sums of data.
RECURSIVE SumOfSums(_, _)
SumOfSums(data, k) ==
    IF k = 0 THEN 0 ELSE SumOfSums(data, k - 1) + SumTo(data, k)

\* The checksum recomputed over a packet's bytes after the sync and before
\* the checksum: ck_a is the sum of the bytes, ck_b the sum of the running
\* values of ck_a, both modulo 256.
Recomputed(p) ==
    LET data == SubSeq(p, 3, Len(p) - 2)
    IN <<SumTo(data, Len(data)) % 256, SumOfSums(data, Len(data)) % 256>>

\* The config file is one message-rate command with 8 byte-sized arguments.
IsMsgCommand ==
    /\ Len(config) = 1
    /\ starts_with(config[1], Line(<<Ubx, CfgMsg>>) \o <<" ">>)
    /\ config[1] \notin BadLines

\* C17: every valid 8-argument CFG-MSG command is encoded, and the last two
\* bytes of its packet equal the checksum recomputed over the packet's bytes
\* after the 2-byte sync and before the checksum, each sum modulo 256.
C17_CfgMsgChecksum ==
    (ubxResult.called /\ IsMsgCommand) =>
        /\ ubxResult.ok
        /\ Len(ubxResult.packets) = 1
        /\ LET p == ubxResult.packets[1]
           IN /\ Len(p) = 16
              /\ <<p[15], p[16]>> = Recomputed(p)

\* C17 witness: a message-rate command was encoded whose byte sum passes 255,
\* so both sums have wrapped.
C17_Witness ==
    /\ ubxResult.called
    /\ IsMsgCommand
    /\ ubxResult.ok
    /\ SumTo(ubxResult.packets[1], 14) - 181 - 98 > 255

\* C18: every encoded packet is sync 0xB5 0x62, class, id, the payload length
\* as 2 bytes little-endian, the payload, ck_a, ck_b: its length is the
\* payload length + 8, the length field is the number of payload bytes, and
\* the checksum over class, id, length and payload wraps modulo 256.
C18_PacketLayout ==
    \A k \in 1..Len(ubxResult.packets) :
        LET p == ubxResult.packets[k]
        IN /\ Len(p) >= 8
           /\ \A i \in 1..Len(p) : p[i] \in 0..255
           /\ p[1] = 181 /\ p[2] = 98
           /\ p[3] = 6 /\ p[4] \in {1, 62, 8}
           /\ p[5] + 256 * p[6] = Len(p) - 8
           /\ <<p[Len(p) - 1], p[Len(p)]>> = Recomputed(p)

\* C18 witness: a file with the three commands was encoded: payloads of 8, 6
\* and 12 bytes.
C18_Witness ==
    /\ ubxResult.ok
    /\ Len(ubxResult.packets) = 3
    /\ {Len(ubxResult.packets[k]) : k \in 1..3} = {16, 14, 20}

\* The packet of each well-formed line of the pool, worked out by hand.
ExpectedPacket(line) ==
    IF line = MsgLine
    THEN <<181, 98, 6, 1, 8, 0, 240, 255, 0, 1, 0, 1, 0, 255, 255, 35>>
    ELSE IF line = RateLine
    THEN <<181, 98, 6, 8, 6, 0, 232, 3, 1, 0, 1, 0, 1, 57>>
    ELSE <<181, 98, 6, 62, 12, 0, 0, 0, 255, 1, 0, 1, 1, 0, 255, 1, 0, 1,
           83, 182>>

IsGoodLine(line) == line \in GoodLines

\* C19: parse_ubx_config returns one packet per directive line, in file
\* order, or, when a directive line is malformed (argument too wide, wrong
\* argument count, unknown command), an error carrying the 1-based number of
\* the first such line and no packet list; blank, comment-only and
\* non-directive lines produce neither a packet nor an error.
C19_PacketsOrFirstError ==
    (ubxResult.called /\ \A i \in 1..Len(config) : config[i] \in LinePool) =>
        LET bad == {i \in 1..Len(config) : config[i] \in BadLines}
            directives == SelectSeq(config, IsGoodLine)
        IN IF bad = {}
           THEN /\ ubxResult.ok
                /\ ubxResult.packets =
                     [k \in 1..Len(directives) |-> ExpectedPacket(directives[k])]
           ELSE /\ ~ubxResult.ok
                /\ ubxResult.packets = <<>>
                /\ ubxResult.line \in bad
                /\ \A i \in bad : ubxResult.line <= i

\* C19 witness: the third line is malformed, after a well-formed command and
\* a skipped line: the error names line 3 and no packet is returned.
C19_Witness ==
    /\ ubxResult.called
    /\ ~ubxResult.ok
    /\ ubxResult.line = 3
    /\ config[1] \in GoodLines
    /\ config[2] \in SkipLines
    /\ ubxResult.packets = <<>>

\* Some segment file of the hour exists and is not empty.
HourHasData(files, contents, hour) ==
    \E f \in list_hour_ubx_files(files, hour) : contents[f] # <<>>

\* C20: an hour whose input segment files do not exist or are all empty is
\* skipped: convert_hour_utc reports it as not processed, without an error,
\* and creates no workspace, invokes no converter, archives and removes
\* nothing.
C20_EmptyHourSkipped ==
    [][(attempt' = attempt + 1 /\ ~HourHasData(segs, written, pHour')) =>
          (/\ ppc' = "idle"
           /\ pResult' = [status |-> "skipped", step |-> "none"]
           /\ workspaces' = workspaces
           /\ archive' = archive
           /\ segs' = segs)]_vars

\* The jobs sent are k catch-up hours, each one hour before the one sent
\* before it, followed by rotation hours in closing (increasing) order.
CatchupThenRotations(sent, k) ==
    /\ \A i \in 1..(k - 1) : sent[i + 1] = sent[i] - 1
    /\ \A i \in (k + 1)..(Len(sent) - 1) : sent[i + 1] > sent[i]

\* C21: the jobs handed to convert_one_hour are, in order, the first of the
\* jobs enqueued, so each enqueued job is received at most once and in enqueue
\* order (catch-up hours newest-first, then rotation hours in closing order);
\* only the worker's receive takes a job from the queue, from its head, and
\* while the receiver exists the queue is exactly the jobs not yet received.
C21_FifoSingleConsumer ==
    /\ [](/\ Len(handed) <= Len(sentOk)
          /\ handed = SubSeq(sentOk, 1, Len(handed))
          /\ (rxAlive => sentOk = handed \o queue)
          /\ \E k \in {0, args.max_days_back * HoursPerDay} :
                k <= Len(sentOk) /\ CatchupThenRotations(sentOk, k))
    /\ [][(handed' # handed \/ Len(queue') < Len(queue)) =>
            \/ /\ queue # <<>>
               /\ wpc \in {"recv", "drain"}
               /\ handed' = Append(handed, Head(queue))
               /\ queue' = Tail(queue)
               /\ wjob' = Head(queue)
            \/ /\ ~rxAlive'
               /\ handed' = handed]_vars

\* C21 witness: the worker has received every catch-up hour and then the
\* hour closed by a rotation, all in the order they were sent.
C21_Witness ==
    /\ Len(handed) > HoursPerDay
    /\ handed = sentOk
    /\ handed[Len(handed)] > handed[1]

SegmentOpened ==
    \/ ipc = "open" /\ ipc' = "top"
    \/ ipc = "rotate" /\ ipc' = "periodic" /\ floor_to_hour(now) # activeKey

\* C23: each segment opening, by the same or by a later process, yields a
\* file name greater than every name already created in the same hour bucket,
\* so no two openings yield the same name.
C23_NamesStrictlyIncreasing ==
    [][SegmentOpened =>
        \A f \in segs :
            floor_to_hour(f) = floor_to_hour(writer') => f < writer']_vars

\* A start that the claim says must fail whatever else happens: the config
\* file is missing or unparseable or yields no command, or the device cannot
\* be opened.
StartupFault ==
    \/ args.config_file = "missing.dat"
    \/ ~parse_ubx_config(config).ok
    \/ parse_ubx_config(config).packets = <<>>
    \/ args.serial_port = "absent"

\* Nothing of the command's work has begun: no worker, no segment file, no
\* read of the ingestion loop.
NothingStarted ==
    /\ wpc = "unspawned"
    /\ ~txAlive /\ ~rxAlive
    /\ segs = {-1}
    /\ openWriters = {}
    /\ writer = NoFile
    /\ lastRead = "none"
    /\ DOMAIN written = {}

\* C24: with a missing or unparseable config file, one without commands, or a
\* device that cannot be opened, the command never gets past its startup: it
\* is still starting or has returned an error, and no worker was spawned, no
\* segment file opened and no read made; the log command started while the
\* logger lock is held returns an error in the same way.
C24_StartupErrorsBeforeWork ==
    /\ [](StartupFault =>
            /\ ipc \in {"start", "failed"}
            /\ (ipc = "failed") =>
                    (runResult \notin {"none", "ok"} /\ "logger" \notin locks[LoggerLock])
            /\ NothingStarted)
    /\ [][(/\ ipc = "start" /\ ipc' # "start"
           /\ args.command = "log" /\ locks[LoggerLock] # {}) =>
            /\ ipc' = "failed"
            /\ runResult' = "lock_held"
            /\ locks' = locks
            /\ ~ubxResult'.called
            /\ NothingStarted']_vars

\* C24 witness: run mode has returned an error for a config file that parses
\* but holds no command.
C24_Witness ==
    /\ ipc = "failed"
    /\ NothingStarted
    /\ args.command = "run"
    /\ runResult = "no_commands"
    /\ ubxResult.called /\ ubxResult.ok
    /\ config # <<>>

\* The log command has returned an error because another logger holds the
\* lock.
LogLockHeld ==
    /\ ipc = "failed"
    /\ NothingStarted
    /\ args.command = "log"
    /\ runResult = "lock_held"
    /\ locks[LoggerLock] = {"other"}

\* C25: the run flag starts true; a step that changes it takes it from true
\* to false and changes nothing else, and once false it stays false, so it
\* makes at most one true-to-false transition.
C25_RunFlagOnlyCleared ==
    /\ running = TRUE
    /\ [][running' # running =>
            /\ running /\ ~running'
            /\ UNCHANGED <<now, args, ipc, runResult, activeKey, writer,
                           openWriters, segs, queue, txAlive, rxAlive, wpc,
                           wphase, wjob, woutcome, cpc, cliLock, locks, sentOk,
                           handed>>
            /\ UNCHANGED nonRunVars]_vars
    /\ [][~running => ~running']_vars

\* C25 witness: the flag was cleared while the loop was running, and run mode
\* has gone on to return Ok with the flag still false.
C25_Witness ==
    /\ ~running
    /\ ipc = "done"
    /\ runResult = "ok"
    /\ writer # NoFile

\* C26: the worker holds the converter lock only inside convert_one_hour
\* (after its acquire succeeded); when convert_one_hour returns, whatever the
\* outcome, the lock is not the worker's any more, and it is not the worker's
\* while the worker waits on the queue, so that a `convert` command that uses
\* the same lock path and finds the worker waiting can take the lock.
C26_LockOnlyDuringJob ==
    /\ [](("worker" \in locks[ConvertLock]) <=> (wpc \in Converting))
    /\ [][(wpc \in InJob /\ wpc' \notin InJob) =>
            /\ "worker" \notin locks'[ConvertLock]
            /\ (wpc' # "killed") =>
                 /\ wpc' = wphase
                 /\ woutcome' \in {"lock_unavailable", "converter_unavailable",
                                   "workflow_error", "skipped", "success"}]_vars
    /\ [][(/\ wpc \in {"recv", "drain"} /\ wpc' = wpc
           /\ cpc = "idle" /\ cpc' = "avail" /\ cliLock' = ConvertLock) =>
            locks'[ConvertLock] = {"cli"}]_vars

\* C26 witness: the worker has finished one job and waits on the queue, which
\* holds the next job, while a `convert` command holds the converter lock.
C26_Witness ==
    /\ wpc = "recv"
    /\ Len(handed) = 1
    /\ woutcome \in {"workflow_error", "skipped", "success"}
    /\ queue # <<>>
    /\ cpc \in Converting
    /\ cliLock = ConvertLock
    /\ locks[ConvertLock] = {"cli"}

\* C27: for each job the worker tries the lock, then checks the converter,
\* then runs the workflow, each only after the one before succeeded: with the
\* lock held elsewhere the job ends as "lock_unavailable" without check or
\* workflow, with the converter missing it ends as "converter_unavailable"
\* without workflow; a job that ends is not put back on the queue, and the
\* worker's next attempt is for the next job it receives.
C27_AcquireCheckConvert ==
    /\ [][wpc' # wpc =>
            /\ (wpc' = "acquire") => (wpc \in {"recv", "drain"} /\ wjob' = Head(queue))
            /\ (wpc' = "avail") => (wpc = "acquire" /\ locks'[ConvertLock] = {"worker"})
            /\ (wpc' = "convert") => (wpc = "avail" /\ locks[ConvertLock] = {"worker"})
            /\ (queue' = queue \/ queue' = <<>>
                \/ (queue # <<>> /\ queue' = Tail(queue)))
            /\ (wpc \in InJob) => (queue' = queue /\ handed' = handed /\ wjob' = wjob)]_vars
    /\ [][(wpc = "acquire" /\ wpc' # wpc /\ locks[ConvertLock] # {}) =>
            /\ wpc' \in {wphase, "killed"}
            /\ (wpc' = wphase) => woutcome' = "lock_unavailable"
            /\ segs' = segs
            /\ locks' = locks]_vars
    /\ [][(wpc \in InJob /\ wpc' = wphase
           /\ woutcome' \in {"lock_unavailable", "converter_unavailable"}) =>
            /\ wpc # "convert"
            /\ segs' = segs
            /\ "worker" \notin locks'[ConvertLock]]_vars

\* C27 witness: the one job sent so far was received while a `convert`
\* command held the converter lock; it ended as "lock_unavailable", the queue
\* is empty and the worker waits for the next job.
C27_Witness ==
    /\ wpc = "recv"
    /\ woutcome = "lock_unavailable"
    /\ Len(sentOk) = 1
    /\ handed = sentOk
    /\ queue = <<>>
    /\ locks[ConvertLock] = {"cli"}
    /\ list_hour_ubx_files(segs, wjob) # {}

\* The sentences of one type among some sentences, in their order.
OfType(sentences, id) ==
    SelectSeq(sentences, LAMBDA s : parse_message_id(s) = id)

\* The watched types whose dirty flag is set, in watch-list order.
Dirty(m) ==
    SelectSeq(WATCHED_MESSAGE_IDS,
              LAMBDA id : /\ id \in DOMAIN m.updated_since_emit
                          /\ m.updated_since_emit[id])

\* The lines an emission prints for the given types: for each, the latest
\* sentence of the type, in the monitor's format.
RECURSIVE LinesFor(_, _)
LinesFor(m, ids) ==
    IF ids = <<>> THEN <<>>
    ELSE emit_sentence_logs(m.format, Head(ids), m.latest[Head(ids)])
         \o LinesFor(m, Tail(ids))

\* What a step appended to a sequence.
Appended(old, new) == SubSeq(new, Len(old) + 1, Len(new))

\* The lines printed so far for one type, one per emitted sentence.
EmittedOf(id) ==
    SelectSeq(emitted, LAMBDA l : l.id = id /\ l.tag = (IF monitor.format = "Plain"
                                                        THEN "PLAIN" ELSE "RAW"))

\* C28: a call of maybe_emit_logs either prints nothing and changes nothing
\* (no emission tick) or prints, in watch-list order GSA, GSV, GNS, RMC, GBS,
\* GST, exactly the types ingested since their previous emission, each with
\* the type's most recently ingested sentence, and leaves every dirty flag
\* false; an ingest sets the flag and the latest sentence of exactly the
\* types it collected. So a type's emissions never outnumber its ingested
\* sentences: no sentence is emitted twice.
C28_EmitDirtyLatestInOrder ==
    /\ [][emitTicks' # emitTicks =>
            \/ /\ emitted' = emitted
               /\ monitor' = monitor
            \/ /\ monitor.interval # 0
               /\ Appended(emitted, emitted') = LinesFor(monitor, Dirty(monitor))
               /\ Dirty(monitor') = <<>>
               /\ monitor'.latest = monitor.latest
               /\ DOMAIN monitor'.updated_since_emit
                    = DOMAIN monitor.updated_since_emit]_vars
    /\ [][(ingestCalls' # ingestCalls /\ monitor.interval # 0) =>
            \A k \in 1..Len(WATCHED_MESSAGE_IDS) :
                LET id == WATCHED_MESSAGE_IDS[k]
                    got == OfType(Appended(captured, captured'), id)
                IN IF got # <<>>
                   THEN /\ monitor'.updated_since_emit[id]
                        /\ monitor'.latest[id] = got[Len(got)]
                   ELSE /\ (id \in DOMAIN monitor'.latest)
                             <=> (id \in DOMAIN monitor.latest)
                        /\ (id \in DOMAIN monitor.latest) =>
                             /\ monitor'.latest[id] = monitor.latest[id]
                             /\ monitor'.updated_since_emit[id]
                                  = monitor.updated_since_emit[id]]_vars
    /\ [](\A k \in 1..Len(WATCHED_MESSAGE_IDS) :
            LET id == WATCHED_MESSAGE_IDS[k]
                all == OfType(captured, id)
            IN /\ (id \in DOMAIN monitor.latest) <=> (all # <<>>)
               /\ (id \in DOMAIN monitor.latest) <=> (id \in DOMAIN monitor.updated_since_emit)
               /\ (all # <<>>) => monitor.latest[id] = all[Len(all)]
               /\ Len(EmittedOf(id)) <= Len(all)
               /\ (all # <<>> /\ ~monitor.updated_since_emit[id])
                    => EmittedOf(id) # <<>>)

\* C28 witness: an RMC sentence and then a GSA sentence were ingested; one
\* emission printed the GSA sentence first and the RMC sentence second, and
\* each was printed once although maybe_emit_logs was called twice.
C28_Witness ==
    /\ monitor.format = "Raw"
    /\ captured = <<RmcLater, GsaSentence>>
    /\ emitted = <<[tag |-> "RAW", id |-> Bytes(<<"G","S","A">>),
                    sentence |-> GsaSentence],
                   [tag |-> "RAW", id |-> Bytes(<<"R","M","C">>),
                    sentence |-> RmcLater]>>
    /\ emitTicks = 2
    /\ Dirty(monitor) = <<>>

\* Two RMC sentences were ingested before an emission, which printed the
\* later one only.
LaterSentenceEmitted ==
    /\ captured = <<RmcSentence, RmcLater>>
    /\ Len(emitted) = 1
    /\ emitted[1].sentence = RmcLater

\* A step that gave the collector exactly one byte, and that byte.
OneByte == Len(stream') = Len(stream) + 1
GivenByte == stream'[Len(stream')]
Idle == [capturing |-> FALSE, buf |-> <<>>]

\* Printable ASCII 0x20..0x7E, or '\r'.
Printable(b) == b = CR \/ (b >= 32 /\ b <= 126)

\* C29: while capturing, a byte other than '$' and '\n' that is not printable
\* ASCII or '\r', or that would make the buffer longer than 160 bytes, puts
\* the collector back to idle with an empty buffer and emits nothing; any
\* other such byte is appended; an idle collector ignores every byte but '$'
\* (its buffer is empty, so nothing of an aborted capture can be emitted).
C29_AbortOnBadByteOrOverflow ==
    /\ [][(OneByte /\ GivenByte \notin {Dollar, LF}) =>
            LET c == monitor.collector
                b == GivenByte
            IN IF ~c.capturing
               THEN monitor'.collector = c /\ captured' = captured
               ELSE IF ~Printable(b) \/ Len(c.buf) + 1 > 160
               THEN monitor'.collector = Idle /\ captured' = captured
               ELSE /\ monitor'.collector =
                          [capturing |-> TRUE, buf |-> Append(c.buf, b)]
                    /\ captured' = captured]_vars
    /\ [](/\ ~monitor.collector.capturing => monitor.collector.buf = <<>>
          /\ Len(monitor.collector.buf) <= 160
          /\ \A k \in 1..Len(captured) :
                /\ Len(captured[k]) <= 160
                /\ \A i \in 1..Len(captured[k]) : Printable(captured[k][i]))

\* C29 witness: the capture of "$A" was aborted by a control byte; the letter
\* and the '\n' that followed were ignored and nothing was emitted.
C29_Witness ==
    /\ stream = <<Dollar, 65, 0, 65, LF>>
    /\ captured = <<>>
    /\ monitor.collector = Idle

\* A capture of 160 bytes was aborted by one more letter; the '\n' after it
\* emitted nothing.
OverflowAborted ==
    /\ stream = LongCapture \o <<65, 65, LF>>
    /\ captured = <<>>
    /\ monitor.collector = Idle

\* The text without its trailing '\r' bytes: its longest prefix that does not
\* end in '\r'.
WithoutTrailingCr(text) ==
    LET ends == {k \in 0..Len(text) : k = 0 \/ text[k] # CR}
        last == CHOOSE k \in ends : \A j \in ends : j <= k
    IN SubSeq(text, 1, last)

\* C30: a '$' given to an idle collector starts a capture whose buffer is
\* just "$"; a '$' given while capturing leaves a buffer of just "$" too, and
\* neither emits; a '\n' given while capturing emits one sentence, the buffer
\* without its trailing '\r', and leaves the collector idle and empty; a '\n'
\* given to an idle collector emits nothing and changes nothing.
C30_DollarStartsNewlineEmits ==
    [][(OneByte /\ GivenByte \in {Dollar, LF}) =>
        LET c == monitor.collector
        IN IF GivenByte = Dollar
           THEN /\ monitor'.collector = [capturing |-> TRUE, buf |-> <<Dollar>>]
                /\ captured' = captured
           ELSE IF c.capturing
           THEN /\ captured' = Append(captured, WithoutTrailingCr(c.buf))
                /\ monitor'.collector = Idle
           ELSE /\ captured' = captured
                /\ monitor'.collector = c]_vars

\* C30 witness: "$A" was cut short by a '$'; the capture restarted with it
\* took a '\r' and was emitted as "$" by the '\n'.
C30_Witness ==
    /\ stream = <<Dollar, 65, Dollar, CR, LF>>
    /\ captured = << <<Dollar>> >>
    /\ monitor.collector = Idle

\* A capture of full length was emitted whole, and a '\n' given to the idle
\* collector after it emitted nothing.
FullSentenceEmitted ==
    /\ stream = LongCapture \o <<65, LF, LF>>
    /\ captured = <<Append(LongCapture, 65)>>
    /\ monitor.collector = Idle

\* The watch-list as a set.
WatchList == {WATCHED_MESSAGE_IDS[k] : k \in 1..Len(WATCHED_MESSAGE_IDS)}

\* The 3-character type suffix of a sentence: the last three characters of
\* what stands between the '$' and the first ',' or '*'; <<>> if fewer.
TypeSuffix(sentence) ==
    LET stops == {i \in 2..Len(sentence) : sentence[i] \in {Comma, Star}}
        end == IF stops = {} THEN Len(sentence)
               ELSE (CHOOSE i \in stops : \A j \in stops : i <= j) - 1
    IN IF end - 1 < 3 THEN <<>> ELSE SubSeq(sentence, end - 2, end)

\* The last of the ingested sentences with the given type suffix.
LastOfType(id) ==
    LET at == {k \in 1..Len(captured) : TypeSuffix(captured[k]) = id}
    IN captured[CHOOSE k \in at : \A j \in at : j <= k]

\* C31: after any ingest and maybe_emit_logs calls the keys of the
\* latest-sentence map are watch-list types, each key holds the last ingested
\* sentence with that type suffix (and every watched type ingested has its
\* key), and a dirty flag is set only for a type that has an entry.
C31_LatestMapInvariant ==
    /\ DOMAIN monitor.latest \subseteq WatchList
    /\ \A id \in WatchList :
        (id \in DOMAIN monitor.latest)
            <=> (\E k \in 1..Len(captured) : TypeSuffix(captured[k]) = id)
    /\ \A id \in DOMAIN monitor.latest : monitor.latest[id] = LastOfType(id)
    /\ \A id \in DOMAIN monitor.updated_since_emit :
        monitor.updated_since_emit[id] => id \in DOMAIN monitor.latest

\* C31 witness: a GLL sentence (not watched), an RMC sentence and a later RMC
\* sentence were ingested; the map holds the later RMC sentence only, dirty.
C31_Witness ==
    /\ captured = <<GllSentence, RmcSentence, RmcLater>>
    /\ DOMAIN monitor.latest = {Bytes(<<"R","M","C">>)}
    /\ monitor.latest[Bytes(<<"R","M","C">>)] = RmcLater
    /\ monitor.updated_since_emit[Bytes(<<"R","M","C">>)]

\* A name in lower case, letter by letter.
Lower(name) ==
    [i \in 1..Len(name) |->
        IF \E k \in 1..26 : UpperCase[k] = name[i]
        THEN LowerCase[CHOOSE k \in 1..26 : UpperCase[k] = name[i]]
        ELSE name[i]]

\* text has pat somewhere in it; text ends with pat.
Has(text, pat) ==
    \E i \in 0..(Len(text) - Len(pat)) :
        \A k \in 1..Len(pat) : text[i + k] = pat[k]
EndsIn(text, pat) ==
    /\ Len(pat) <= Len(text)
    /\ \A k \in 1..Len(pat) : text[Len(text) - Len(pat) + k] = pat[k]

\* The extension of a name: what follows its last '.'; <<>> if it has none.
Extension(text) ==
    LET dots == {i \in 1..Len(text) : text[i] = "."}
    IN IF dots = {} THEN <<>>
       ELSE SubSeq(text, (CHOOSE i \in dots : \A j \in dots : j <= i) + 1,
                   Len(text))

\* The kind the last letter of a text stands for.
LetterKind(text) ==
    IF text = <<>> THEN "Other"
    ELSE IF text[Len(text)] \in {"o", "d"} THEN "Observation"
    ELSE IF text[Len(text)] \in {"n", "g", "l", "p", "q"} THEN "Navigation"
    ELSE "Other"

\* The rules before the last-letter rule, on a lower-case name: the kind, or
\* "undecided".
InfixKind(l) ==
    IF Has(l, <<"_","n","a","v","s","e","t",".","t","a","r",".","g","z">>)
       \/ Has(l, <<"_","m","n",".">>)
    THEN "Navigation"
    ELSE IF Has(l, <<"_","m","o",".">>) THEN "Observation"
    ELSE IF \/ EndsIn(l, <<".","c","r","x">>)
            \/ EndsIn(l, <<".","c","r","x",".","g","z">>)
            \/ EndsIn(l, <<".","r","n","x">>)
            \/ EndsIn(l, <<".","r","n","x",".","g","z">>)
    THEN "Observation"
    ELSE "undecided"

\* The kind the claim gives a name: the last letter of its extension decides
\* when no earlier rule does.
ClaimedKind(name) ==
    IF InfixKind(Lower(name)) # "undecided" THEN InfixKind(Lower(name))
    ELSE LetterKind(Extension(Lower(name)))

\* The same with the last-letter rule as the code has it: a trailing ".gz" is
\* removed first, and a name without '.' is taken whole.
TrimmedKind(name) ==
    LET l == Lower(name)
        t == IF EndsIn(l, <<".","g","z">>) THEN SubSeq(l, 1, Len(l) - 3) ELSE l
    IN IF InfixKind(l) # "undecided" THEN InfixKind(l)
       ELSE IF \E i \in 1..Len(t) : t[i] = "." THEN LetterKind(Extension(t))
       ELSE LetterKind(t)

\* The names that are segment inputs: a segment file, the merged input.
IsSegmentInput(name) ==
    name = SegmentName \/ \E h \in 0..MaxHour : name = MergedName(h)

\* C32 (as claimed): classify_output_name gives every name a kind by the
\* rules in order, first match wins, case-insensitively: `_navset.tar.gz` or
\* `_mn.` Navigation, `_mo.` Observation, an ending .crx, .crx.gz, .rnx or
\* .rnx.gz Observation, else the last letter of the extension decides, else
\* Other; segment inputs are Other.
C32_LastLetterOfExtension ==
    \A i \in 1..Len(vOutputs) :
        /\ classify_output_name(vOutputs[i]) = ClaimedKind(vOutputs[i])
        /\ IsSegmentInput(vOutputs[i]) => classify_output_name(vOutputs[i]) = "Other"

\* C32 (amended): the same, the last-letter rule being applied to the name
\* with a trailing `.gz` removed, and to the whole name when it has no '.'.
C32_LastLetterAfterGzip ==
    \A i \in 1..Len(vOutputs) :
        /\ classify_output_name(vOutputs[i]) = TrimmedKind(vOutputs[i])
        /\ classify_output_name(vOutputs[i])
             \in {"Observation", "Navigation", "Other"}
        /\ IsSegmentInput(vOutputs[i]) => classify_output_name(vOutputs[i]) = "Other"

\* C32 witness: the outputs validated were an upper-case .CRX name, a gzipped
\* short navigation name and the merged input.
C32_Witness ==
    /\ vResult # NotCalled
    /\ vOutputs = << <<"N","J","I","T",".","C","R","X">>,
                     <<"n","j","i","t","0","0","1","j",".","2","4","n",".","g","z">>,
                     MergedName(0) >>
    /\ classify_output_name(vOutputs[1]) = "Observation"
    /\ classify_output_name(vOutputs[2]) = "Navigation"
    /\ classify_output_name(vOutputs[3]) = "Other"

\* The contents of the given segment files one after the other, in creation
\* order (a segment file is named by the time it was created at).
RECURSIVE ConcatFiles(_, _)
ConcatFiles(files, names) ==
    IF names = {} THEN <<>>
    ELSE LET first == CHOOSE f \in names : \A g \in names : f <= g
         IN files[first] \o ConcatFiles(files, names \ {first})

RunFileBytes == ConcatFiles(written, DOMAIN written)

\* run_mode has returned the error of a write_all on the bytes of a read.
WriteFailed == ipc = "failed" /\ lastRead = "Ok(size)"

\* C33 (as claimed): every byte port.read returned has been appended once, in
\* order, to a segment file: total_bytes is the number of bytes in the run's
\* segment files, and the files in creation order, followed by what the
\* receiver has yet to deliver, are the receiver's stream.
C33_EveryReadByteAppended ==
    /\ total_bytes = Len(RunFileBytes)
    /\ RunFileBytes \o dev \in DevStreams

\* C33 (amended): a read whose write_all succeeds appends its bytes once, in
\* order, to the writer that was active when it started, counts them and goes
\* on to the rotation check; as long as no write_all has failed total_bytes is
\* the number of bytes in the segment files and the files in creation order
\* are the stream read; a failed write_all ends run_mode with the files
\* holding a proper prefix of the stream read and total_bytes not counting
\* the bytes of the failed read.
C33_ReadBytesAppendedOnce ==
    /\ [](~WriteFailed =>
            /\ total_bytes = Len(RunFileBytes)
            /\ RunFileBytes \o dev \in DevStreams)
    /\ [](WriteFailed =>
            /\ total_bytes <= Len(RunFileBytes)
            /\ \E s \in DevStreams :
                 \E lost \in 1..MaxRead :
                    /\ Len(RunFileBytes) + lost + Len(dev) = Len(s)
                    /\ RunFileBytes = SubSeq(s, 1, Len(RunFileBytes))
                    /\ dev = SubSeq(s, Len(s) - Len(dev) + 1, Len(s)))
    /\ [][ipc = "read" /\ lastRead' = "Ok(size)" /\ ipc' # "failed" =>
            /\ ipc' = "rotate"
            /\ writer' = writer /\ activeKey' = activeKey
            /\ Len(dev') < Len(dev)
            /\ DOMAIN written' = DOMAIN written \cup {writer}
            /\ \A f \in DOMAIN written' :
                 written'[f] =
                    (IF f \in DOMAIN written THEN written[f] ELSE <<>>)
                    \o (IF f = writer
                        THEN SubSeq(dev, 1, Len(dev) - Len(dev')) ELSE <<>>)
            /\ total_bytes' = total_bytes + (Len(dev) - Len(dev'))]_vars

\* C33 witness: the loop has read the whole stream in reads before and after
\* a rotation, and the two segment files hold it between them.
C33_Witness ==
    /\ ipc \in LoopPcs
    /\ dev = <<>>
    /\ Cardinality(DOMAIN written) = 2
    /\ \A f \in DOMAIN written : written[f] # <<>>
    /\ total_bytes = Len(RunFileBytes)
    /\ total_bytes = 5

\* A write_all failed after part of the bytes of the read had been written.
PartWritten == WriteFailed /\ total_bytes < Len(RunFileBytes)

\* C34: a rotation enqueues its job, for the bucket it closes, in the step in
\* which the old writer has been closed and the new segment file is open; no
\* queued job names a bucket with an open writer, and the bytes of a segment
\* whose bucket's job was sent never change again; a rotation that fails
\* (flushing the old file or opening the new one) enqueues nothing.
C34_JobAfterCloseAndOpen ==
    /\ [][ipc = "rotate" /\ sentOk' # sentOk =>
            /\ sentOk' = Append(sentOk, activeKey)
            /\ queue' = Append(queue, activeKey)
            /\ floor_to_hour(writer) = activeKey
            /\ writer \notin openWriters'
            /\ writer' \in openWriters' /\ writer' \in segs'
            /\ floor_to_hour(writer') # activeKey
            /\ ipc' = "periodic"]_vars
    /\ [](\A i \in 1..Len(queue) :
            \A f \in openWriters : floor_to_hour(f) # queue[i])
    /\ [][\A f \in DOMAIN written :
            (\E i \in 1..Len(sentOk) : sentOk[i] = floor_to_hour(f)) =>
                /\ f \in DOMAIN written'
                /\ written'[f] = written[f]]_vars
    /\ [][ipc = "rotate" /\ ipc' = "failed" =>
            queue' = queue /\ sentOk' = sentOk]_vars

\* C34 witness: the job of a rotation waits in the queue; the segment of the
\* bucket it names holds bytes and the loop writes to a later bucket's file.
C34_Witness ==
    /\ ipc \in LoopPcs
    /\ queue # <<>>
    /\ \E f \in DOMAIN written :
        /\ floor_to_hour(f) = queue[Len(queue)]
        /\ written[f] # <<>>
        /\ f \notin openWriters
    /\ writer \in openWriters
    /\ floor_to_hour(writer) > queue[Len(queue)]

\* A rotation failed with the closed bucket's job not sent.
RotationFailed ==
    /\ ipc = "failed"
    /\ runResult = "io_error"
    /\ lastRead = "none"
    /\ floor_to_hour(now) # activeKey
    /\ writer \in DOMAIN written
    /\ \A i \in 1..Len(sentOk) : sentOk[i] # activeKey

\* C35: whatever shift_hours and max_days_back are, the worker never converts
\* (merges, and without --keep-ubx deletes) the segments of a bucket in which
\* the ingestion loop has a file open, no queued job names such a bucket, and
\* the hours the startup catch-up has sent are all before the current hour.
C35_NoJobForActiveBucket ==
    /\ wpc \in Converting =>
          \A f \in openWriters : floor_to_hour(f) # wjob
    /\ \A i \in 1..Len(queue) :
          \A f \in openWriters : floor_to_hour(f) # queue[i]
    /\ ipc = "open" =>
          \A i \in 1..Len(sentOk) : sentOk[i] < floor_to_hour(now)

\* The worker has converted the current hour and removed the segment file the
\* ingestion loop is writing to.
ActiveSegmentDeleted ==
    /\ ipc \in LoopPcs
    /\ writer \in openWriters
    /\ writer \notin segs
    /\ woutcome = "success"

\* C36: a read that fails with an error other than a timeout ends run_mode in
\* that step with that error: nothing is written, counted, opened or sent, the
\* worker is not waited for, and from then on run_mode does nothing more (no
\* rotation, flush, send or join), so that the jobs queued at that moment stay
\* unprocessed when the worker ends with the process.
C36_ReadErrorReturnsAtOnce ==
    /\ [][ipc = "read" /\ lastRead' = "Err(other)" =>
            /\ ipc' = "failed"
            /\ runResult' = "read_error"
            /\ UNCHANGED <<written, total_bytes, dev, segs, writer, activeKey,
                           queue, sentOk, handed>>
            /\ wpc \notin {"unspawned", "exited"} => wpc' = "killed"]_vars
    /\ [][runResult = "read_error" =>
            /\ ipc' = "failed"
            /\ runResult' = "read_error"
            /\ UNCHANGED <<written, total_bytes, segs, writer, activeKey,
                           sentOk, openWriters, txAlive>>]_vars
    /\ [](runResult = "read_error" => ipc = "failed" /\ openWriters = {})

\* C36 witness: a read failed after a rotation whose job the worker had not
\* taken yet; run_mode has returned the error and the job is still queued.
C36_Witness ==
    /\ ipc = "failed"
    /\ runResult = "read_error"
    /\ lastRead = "Err(other)"
    /\ queue # <<>>
    /\ wpc = "killed"
    /\ queue[1] < activeKey

\* ------------------------------------------- the convert command's window
\* The segment files the data_dir of the convert command may hold at tick 0:
\* one of the current hour, two of the hour before, one of the hour before
\* that and one from long ago.
RecentFilePool ==
    {0, -1, -TicksPerHour, -TicksPerHour - 1, -30 * TicksPerHour}

RecentArgSets ==
    [shift_hours : 0..MaxShiftHours, max_days_back : 0..MaxDaysBack,
     keep_ubx : BOOLEAN]

\* convert.rs 35: total_hours.
total_hours(a) == a.max_days_back * HoursPerDay

\* convert.rs 55-57: processed_hours += 1 only if convert_hour_utc returned true.
count_every_hour(n, converted) == n + 1
count_processed(n, converted) == IF converted THEN n + 1 ELSE n

\* run_convert returns: _lock is dropped.
RecentEnd(res) ==
    /\ rpc' = "done"
    /\ rResult' = res
    /\ locks' = drop_lock(locks, ConvertLock, "cli")

\* convert.rs 18-50: run_convert up to the loop of convert_recent_hours: the
\* directories, the lock, the total_hours check, ensure_converter_available,
\* the anchor.
RunConvert ==
    /\ rpc = "start"
    /\ \E io_ok, avail \in BOOLEAN :
        IF ~acquire_ok(locks, ConvertLock, io_ok)
        THEN /\ rpc' = "done"
             /\ rResult' = [ok |-> FALSE, at |-> NoHour, why |-> "startup"]
             /\ UNCHANGED <<locks, rAnchor>>
        ELSE IF total_hours(rArgs) <= 0 \/ ~avail
        THEN /\ rpc' = "done"
             /\ rResult' = [ok |-> FALSE, at |-> NoHour,
                            why |-> IF total_hours(rArgs) <= 0
                                    THEN "max_days_back" ELSE "converter"]
             /\ UNCHANGED <<locks, rAnchor>>
        ELSE /\ rpc' = "walk"
             /\ locks' = acquire(locks, ConvertLock, "cli", io_ok)
             /\ rAnchor' = floor_to_hour(now - rArgs.shift_hours * TicksPerHour)
             /\ UNCHANGED rResult
    /\ UNCHANGED <<rArgs, rOffset, processed_hours, rTried, rArchived>>
    /\ UNCHANGED <<now, running, args, ipc, runResult, activeKey, writer,
                   openWriters, segs, queue, txAlive, rxAlive, wpc, wphase, wjob,
                   woutcome, cpc, cliLock, sentOk, handed>>
    /\ UNCHANGED <<valVars, convVars, dataVars, nmeaVars, ubxVars>>

\* convert.rs 53-58, 64-79, 82-143: one pass of the loop: convert_hour_utc for
\* anchor - offset. Listing the hour's files can fail; with files, process_hour
\* can fail before anything is archived, or after archiving while removing
\* the inputs.
ConvertHour ==
    /\ rpc = "walk"
    /\ rOffset < total_hours(rArgs)
    /\ rTried' = Append(rTried, rAnchor - rOffset)
    /\ \E res \in {"ok", "list_err", "convert_err", "remove_err"} :
        /\ res \in {"convert_err", "remove_err"} =>
              list_hour_ubx_files(segs, rAnchor - rOffset) # {}
        /\ res = "remove_err" => should_remove_inputs(rArgs.keep_ubx)
        /\ IF res = "ok"
           THEN /\ rOffset' = rOffset + 1
                /\ processed_hours' =
                      count_processed(processed_hours,
                          list_hour_ubx_files(segs, rAnchor - rOffset) # {})
                /\ rArchived' =
                      IF list_hour_ubx_files(segs, rAnchor - rOffset) # {}
                      THEN rArchived \cup {rAnchor - rOffset} ELSE rArchived
                /\ segs' = IF should_remove_inputs(rArgs.keep_ubx)
                           THEN segs \ list_hour_ubx_files(segs, rAnchor - rOffset)
                           ELSE segs
                /\ UNCHANGED <<rpc, rResult, locks>>
           ELSE /\ RecentEnd([ok |-> FALSE, at |-> rAnchor - rOffset, why |-> res])
                /\ rArchived' = IF res = "remove_err"
                                THEN rArchived \cup {rAnchor - rOffset}
                                ELSE rArchived
                /\ IF res = "remove_err"
                   THEN \E gone \in RemovalPrefixes(
                                 list_hour_ubx_files(segs, rAnchor - rOffset)) :
                          /\ gone # list_hour_ubx_files(segs, rAnchor - rOffset)
                          /\ segs' = segs \ gone
                   ELSE segs' = segs
                /\ UNCHANGED <<rOffset, processed_hours>>
    /\ UNCHANGED <<rArgs, rAnchor>>
    /\ UNCHANGED <<now, running, args, ipc, runResult, activeKey, writer,
                   openWriters, queue, txAlive, rxAlive, wpc, wphase, wjob,
                   woutcome, cpc, cliLock, sentOk, handed>>
    /\ UNCHANGED <<valVars, convVars, dataVars, nmeaVars, ubxVars>>

\* convert.rs 60, 36-38: Ok(processed_hours), the report, Ok(()).
ConvertReturn ==
    /\ rpc = "walk"
    /\ rOffset = total_hours(rArgs)
    /\ RecentEnd([ok |-> TRUE, at |-> NoHour, why |-> "none"])
    /\ UNCHANGED <<rArgs, rAnchor, rOffset, processed_hours, rTried, rArchived>>
    /\ UNCHANGED <<now, running, args, ipc, runResult, activeKey, writer,
                   openWriters, segs, queue, txAlive, rxAlive, wpc, wphase, wjob,
                   woutcome, cpc, cliLock, sentOk, handed>>
    /\ UNCHANGED <<valVars, convVars, dataVars, nmeaVars, ubxVars>>

InitRecent ==
    /\ \E files \in SUBSET RecentFilePool : RunParkedWith(files)
    /\ DataQuiet /\ NmeaParked /\ UbxParked /\ ValParked /\ ConvParked
    /\ rArgs \in RecentArgSets
    /\ rpc = "start"
    /\ rAnchor = NoHour
    /\ rOffset = 0
    /\ processed_hours = 0
    /\ rResult = NotReturned
    /\ rTried = <<>>
    /\ rArchived = {}

NextRecent == RunConvert \/ ConvertHour \/ ConvertReturn

\* The convert command, alone on its data directory.
SpecRecent == InitRecent /\ [][NextRecent]_vars

\* C37: convert_recent_hours calls convert_hour_utc for the anchor hour, then
\* for each hour before it, at most total_hours of them; the first call that
\* returns an error ends the command with that error, no older hour being
\* tried; what earlier hours archived stays archived; an hour without input is
\* passed over, changing nothing and not counted, so that the count reported
\* on success is the number of hours archived.
C37_WalkStopsAtFirstError ==
    /\ [](/\ Len(rTried) <= total_hours(rArgs)
          /\ \A i \in 1..Len(rTried) : rTried[i] = rAnchor - (i - 1))
    /\ [][rpc = "walk" /\ rpc' = "done" /\ ~rResult'.ok =>
            /\ rResult'.at = rAnchor - rOffset
            /\ rTried' = Append(rTried, rAnchor - rOffset)
            /\ processed_hours' = processed_hours]_vars
    /\ [][rpc = "done" => UNCHANGED <<rTried, rArchived, segs, rResult>>]_vars
    /\ [][rArchived \subseteq rArchived']_vars
    /\ [][rpc = "walk" /\ rOffset' = rOffset + 1 =>
            IF list_hour_ubx_files(segs, rAnchor - rOffset) = {}
            THEN UNCHANGED <<processed_hours, rArchived, segs>>
            ELSE /\ processed_hours' = processed_hours + 1
                 /\ rArchived' = rArchived \cup {rAnchor - rOffset}
                 /\ rAnchor - rOffset \notin rArchived]_vars
    /\ [](rResult.ok =>
            /\ Len(rTried) = total_hours(rArgs)
            /\ processed_hours = Cardinality(rArchived))

\* C37 witness: the command converted the anchor hour, passed over the empty
\* hour before it and failed on the third hour, whose segment file is still
\* there; it returned that hour's error with one hour archived.
C37_Witness ==
    /\ rpc = "done"
    /\ rResult = [ok |-> FALSE, at |-> rAnchor - 2, why |-> "convert_err"]
    /\ rTried = <<rAnchor, rAnchor - 1, rAnchor - 2>>
    /\ rArchived = {rAnchor}
    /\ processed_hours = 1
    /\ list_hour_ubx_files(segs, rAnchor - 2) # {}
    /\ list_hour_ubx_files(segs, rAnchor - 30) # {}

\* C38: a collector that is not capturing has an empty buffer; one that is
\* capturing has 1 to 160 bytes in it, the first '$' and the others printable
\* ASCII or '\r' and neither '$' nor '\n'; every sentence pushed out starts
\* with '$', is at most 160 long and has no '\n' in it.
C38_CollectorInvariant ==
    /\ ~monitor.collector.capturing => monitor.collector.buf = <<>>
    /\ monitor.collector.capturing =>
          /\ Len(monitor.collector.buf) >= 1
          /\ Len(monitor.collector.buf) <= 160
          /\ monitor.collector.buf[1] = Dollar
          /\ \A i \in 2..Len(monitor.collector.buf) :
                /\ Printable(monitor.collector.buf[i])
                /\ monitor.collector.buf[i] \notin {Dollar, LF}
    /\ \A k \in 1..Len(captured) :
          /\ captured[k] # <<>>
          /\ captured[k][1] = Dollar
          /\ Len(captured[k]) <= 160
          /\ \A i \in 1..Len(captured[k]) : captured[k][i] # LF

\* C38 witness: after a sentence was pushed out the collector is capturing
\* again, holding a '$' and a letter.
C38_Witness ==
    /\ captured # <<>>
    /\ monitor.collector = [capturing |-> TRUE, buf |-> <<Dollar, 65>>]
    /\ ingestCalls >= 3

\* The buffer of a capturing collector is full.
BufferFull ==
    /\ monitor.collector.capturing
    /\ Len(monitor.collector.buf) = MAX_SENTENCE_LEN
    /\ ingestCalls = 1

\* C39: however the bytes were split over the ingest calls made so far, the
\* sentences the collector has pushed out and the state it is in are those of
\* one push_bytes call on a new collector with all the bytes at once (a
\* monitor without interval gives its collector nothing).
C39_ChunkingIndependent ==
    IF interval_is_none(monitor.interval)
    THEN captured = <<>> /\ monitor.collector = collector_new
    ELSE /\ captured = push_bytes(collector_new, stream).out
         /\ monitor.collector = push_bytes(collector_new, stream).collector

\* C39 witness: a sentence came in one call and its "\r\n" in the next, after
\* the beginning of another sentence; it was pushed out whole.
C39_Witness ==
    /\ stream = Bytes(<<"$","G","P">>) \o RmcSentence \o CRLF
    /\ ingestCalls = 3
    /\ captured = <<RmcSentence>>
    /\ monitor.collector = Idle

\* C40: the worker goes from its receive loop to the drain loop only from a
\* wait on an empty queue, and then either the run flag is false or every
\* sender is gone; a wait that finds a job takes it whatever the flag says;
\* after a job taken in the receive loop, whatever its outcome, the worker
\* waits again; so while the flag is true and the sender alive the worker is
\* in its receive loop or in a job of it.
C40_WorkerLeavesOnlyOnStop ==
    /\ [][wpc = "recv" /\ wpc' \notin {"recv", "acquire", "killed"} =>
            /\ wpc' = "drain"
            /\ queue = <<>>
            /\ (~running \/ ~txAlive)]_vars
    /\ [][wpc = "recv" /\ wpc' # wpc /\ queue # <<>> /\ wpc' # "killed" =>
            /\ wpc' = "acquire"
            /\ wjob' = Head(queue)
            /\ wphase' = "recv"]_vars
    /\ [][(wpc \in InJob /\ wphase = "recv" /\ wpc' \notin InJob
            /\ wpc' # "killed") => wpc' = "recv"]_vars
    /\ [](running /\ txAlive =>
            \/ wpc = "recv"
            \/ wpc \in InJob /\ wphase = "recv")

\* C40 witness: with the flag true and the sender alive the worker waits
\* again after two jobs, the last of which failed.
C40_Witness ==
    /\ running /\ txAlive
    /\ wpc = "recv"
    /\ Len(handed) = 2
    /\ woutcome \in {"lock_unavailable", "converter_unavailable",
                     "workflow_error"}

\* The worker took a job from a wait although the flag was already false.
JobTakenAfterStop ==
    /\ ~running
    /\ wpc = "acquire"
    /\ wphase = "recv"

====
